---- MODULE Spec2Model ----
(***************************************************************************)
(* Payment-callback reconciliation workflow of the tour-booking backend:   *)
(* EsewaV2VerifyAndBookView.get (system/esewa_v2_views.py) together with   *)
(* EsewaPayment (system/esewa_utils.py) and the Traveler / Ticket /        *)
(* Payment tables (system/models.py).                                      *)
(*                                                                         *)
(* Strings of the program are TLA+ strings.  Python's None is the token    *)
(* None.  A text that the program parses (an amount, an id, the gateway    *)
(* payload) is parsed here by the same rule the code applies to it.        *)
(***************************************************************************)
EXTENDS Integers, Sequences, FiniteSets, TLC

VARIABLES
    store,                \* committed rows: travelers, tickets, payments
    seq,                  \* AutoField sequences of the three tables
    received,             \* number of callbacks received so far
    production,           \* deployment configuration (settings), never read by the handler
    pc,                   \* per worker: position inside get()
    cb,                   \* per worker: serial number of the callback being handled
    GET,                  \* per worker: request.GET of the callback
    decoded_data,         \* per worker: result of decode_payment_response
    remote,               \* per worker: what the verification endpoint answered
    verification_result,  \* per worker: verification_result of get()
    amount_checked,       \* per worker: the comparison of step 7 was executed
    traveler,             \* per worker: traveler_id resolved in the atomic block
    ticket,               \* per worker: ticket_id created in the atomic block
    tx,                   \* per worker: rows written inside the open atomic block
    result,               \* per worker: the response returned by get()
    vp_call,              \* verify_payment: arguments and the endpoint's answer
    vp_result,            \* verify_payment: what the call returned
    intent,               \* validated_data of NestedBookingWithEsewaSerializer
    booking_params,       \* booking_params of initiate_esewa_payment
    success_url,          \* success_url of initiate_esewa_payment
    original_url,         \* request.build_absolute_uri() of a callback
    fixed_url,            \* fix_esewa_callback_url(original_url)
    extracted,            \* the query parameters get() reads in step 1
    pr_call,              \* create_payment_request: its arguments
    pr_result,            \* create_payment_request: what the call returned or raised
    dp_input,             \* decode_payment_response: its argument
    dp_result,             \* decode_payment_response: what the call returned
    complete_response     \* last response of EsewaBookingCompleteView.post

vars == << store, seq, received, production, pc, cb, GET, decoded_data, remote,
           verification_result, amount_checked, traveler, ticket, tx, result,
           vp_call, vp_result, intent, booking_params, success_url,
           original_url, fixed_url, extracted,
           pr_call, pr_result, dp_input, dp_result, complete_response >>

util_vars == << pr_call, pr_result, dp_input, dp_result, complete_response >>

url_vars == << intent, booking_params, success_url, original_url, fixed_url,
               extracted >>

handler_vars == << pc, cb, GET, decoded_data, remote, verification_result,
                   amount_checked, traveler, ticket, tx, result >>

(***************************************************************************)
(* Bounds                                                                  *)
(***************************************************************************)
MaxCallbacks == 2

Workers == {"w1", "w2"}

(***************************************************************************)
(* Python values                                                           *)
(***************************************************************************)
None == "None"

\* truth value of `not x` for a str-or-None
Falsy(x) == x = None \/ x = ""

EmptyDict == [k \in {} |-> None]

\* dict.get(key): the value, or None when the key is absent
Get(d, k) == IF k \in DOMAIN d THEN d[k] ELSE None

\* dict.get(key, default)
GetOr(d, k, default) == IF k \in DOMAIN d THEN d[k] ELSE default

\* float(text) for the amount texts of the model, in hundredths
float_hundredths ==
    ("100" :> 10000) @@ ("100.9" :> 10090) @@ ("200" :> 20000) @@
    ("-100.9" :> -10090) @@ ("101" :> 10100) @@ ("201" :> 20100)

IsFloatText(s) == s \in DOMAIN float_hundredths

\* math.floor(float(text)): rounding toward minus infinity
int_float_floor(s) == float_hundredths[s] \div 100

\* int(float(text)): truncation toward zero
int_float(s) ==
    IF float_hundredths[s] >= 0
    THEN float_hundredths[s] \div 100
    ELSE -((-float_hundredths[s]) \div 100)

\* int(text) for the id texts of the model
int_text ==
    ("1" :> 1) @@ ("2" :> 2) @@ ("7" :> 7) @@ ("9" :> 9) @@
    ("0" :> 0) @@ ("100" :> 100) @@ ("200" :> 200) @@ ("-100" :> -100) @@
    ("-101" :> -101) @@
    ("101" :> 101) @@ ("201" :> 201)

IsIntText(s) == s \in DOMAIN int_text

\* str.lower() on the flag texts of the model
lower(s) == IF s = "TRUE" THEN "true" ELSE s

(***************************************************************************)
(* Gateway payload: the `data` query parameter.  Its decoded text is kept  *)
(* as the sequence of its '&'-separated segments; a segment "k=v" is the   *)
(* pair <<k, v>> and a segment without '=' is a 1-tuple.                   *)
(***************************************************************************)
Pair(k, v) == IF v = None THEN << >> ELSE << <<k, v>> >>

PayloadText(p) ==
    Pair("transaction_code", p.transaction_code) \o
    Pair("status", p.status) \o
    Pair("total_amount", p.total_amount) \o
    Pair("transaction_uuid", p.transaction_uuid) \o
    Pair("product_code", p.product_code) \o
    Pair("signature", p.signature) \o
    Pair("error", p.error)

b64encode(text) == [kind |-> "b64", text |-> text]

AbsentData == [kind |-> "absent", text |-> << >>]

GarbageData == [kind |-> "garbage", text |-> << >>]

RECURSIVE ParseParams(_, _)
ParseParams(segments, params) ==
    IF segments = << >> THEN params
    ELSE LET param == Head(segments)
         IN  IF Len(param) = 2
             THEN ParseParams(Tail(segments), (param[1] :> param[2]) @@ params)
             ELSE ParseParams(Tail(segments), params)

DecodeErrorDict ==
    ("error" :> "exception") @@ ("message" :> "Failed to decode eSewa response")

\* base64 of bytes that are not UTF-8
NotUtf8Data == [kind |-> "not_utf8", text |-> << >>]

\* base64 of a text given unit by unit, '&' and '=' being units
b64encode_units(units) == [kind |-> "b64_text", text |-> units]

\* the same with characters outside the base64 alphabet in it, which
\* b64decode (validate=False) discards before it decodes
b64encode_with_noise(units) == [kind |-> "b64_noise", text |-> units]

\* param.rsplit('=', 1): the last '=' separates key and value
key_value_rsplit(param) ==
    LET hits == { i \in 1..Len(param) : param[i] = "=" }
        pos == CHOOSE i \in hits : \A j \in hits : j <= i
    IN  IF hits = {} THEN << param >>
        ELSE << SubSeq(param, 1, pos - 1), SubSeq(param, pos + 1, Len(param)) >>

\* `if '=' in param: key, value = param.split('=', 1)`; a param without
\* '=' is kept as a 1-tuple
key_value(param) ==
    LET hits == { i \in 1..Len(param) : param[i] = "=" }
        pos == CHOOSE i \in hits : \A j \in hits : i <= j
    IN  IF hits = {} THEN << param >>
        ELSE << SubSeq(param, 1, pos - 1), SubSeq(param, pos + 1, Len(param)) >>

\* decoded_str.split('&'), each param through key_value
RECURSIVE segments_of(_)
segments_of(decoded_str) ==
    LET hits == { i \in 1..Len(decoded_str) : decoded_str[i] = "&" }
        pos == CHOOSE i \in hits : \A j \in hits : i <= j
    IN  IF hits = {} THEN << key_value(decoded_str) >>
        ELSE << key_value(SubSeq(decoded_str, 1, pos - 1)) >> \o
             segments_of(SubSeq(decoded_str, pos + 1, Len(decoded_str)))

decode_payment_response(encoded_response) ==
    CASE encoded_response.kind = "b64" ->
             ParseParams(encoded_response.text, EmptyDict)
      [] encoded_response.kind \in {"b64_text", "b64_noise"} ->
             ParseParams(segments_of(encoded_response.text), EmptyDict)
      [] OTHER -> DecodeErrorDict

(***************************************************************************)
(* The verification endpoint's possible answers                            *)
(***************************************************************************)
JsonBodies ==
    { ("status" :> "COMPLETE"), ("status" :> "PENDING"), ("ref_id" :> "r") }

RemoteResponses ==
    { [kind |-> "timeout", http |-> 0, json |-> FALSE, body |-> EmptyDict] } \cup
    { [kind |-> "response", http |-> h, json |-> TRUE, body |-> b] :
          h \in {200, 404, 500}, b \in JsonBodies } \cup
    { [kind |-> "response", http |-> h, json |-> FALSE, body |-> EmptyDict] :
          h \in {200, 404, 500} }

NotCalled == [kind |-> "not_called", http |-> 0, json |-> FALSE, body |-> EmptyDict]

(***************************************************************************)
(* Responses of get()                                                      *)
(***************************************************************************)
NoResult ==
    [ kind |-> "none", http |-> 0, error |-> "", details |-> "",
      transaction_status |-> None, missing_fields |-> << >>,
      api_status_code |-> 0,
      ticket_id |-> 0, payment_id |-> 0, traveler_id |-> 0,
      transaction_uuid |-> None ]

Rejected(http, error, details) ==
    [NoResult EXCEPT !.kind = "Rejected", !.http = http, !.error = error,
                     !.details = details]

\* an exception that leaves get(): the framework answers 500 without a body of ours
Unhandled == [NoResult EXCEPT !.kind = "Exception", !.http = 500]

(***************************************************************************)
(* Database                                                                *)
(***************************************************************************)
NoRows == [travelers |-> {}, tickets |-> {}, payments |-> {}]

Packages == {1}

SeedTraveler ==
    [ traveler_id |-> 1, name |-> "N0", email |-> "e0", phone_number |-> "p0",
      address |-> "A0", cb |-> 0 ]

\* Payment.objects.update_or_create keyed by the transaction uuid: a payment
\* of the block takes the place of the stored payment with the same uuid
Commit_update_or_create(st, rows) ==
    [ travelers |-> st.travelers \cup rows.travelers,
      tickets   |-> st.tickets \cup rows.tickets,
      payments  |->
          { p \in st.payments :
              \A q \in rows.payments :
                  q.esewa_transaction_uuid # p.esewa_transaction_uuid }
          \cup rows.payments ]

\* leaving `with db_transaction.atomic()` normally: the rows become visible
Commit(st, rows) ==
    [ travelers |-> st.travelers \cup rows.travelers,
      tickets   |-> st.tickets \cup rows.tickets,
      payments  |-> st.payments \cup rows.payments ]

\* no atomic block: every row written before the exception stays
Rollback_autocommit(st, rows) == Commit(st, rows)

\* Ticket.objects.create outside the atomic block: the ticket stays when the
\* block is left by an exception
Rollback_ticket_kept(st, rows) ==
    [st EXCEPT !.tickets = @ \cup rows.tickets]

\* leaving `with db_transaction.atomic()` by an exception: the rows are dropped
Rollback(st, rows) == st

\* rows a query inside the atomic block of worker w can see
Visible(w) == Commit(store, tx[w])

Min(S) == CHOOSE x \in S : \A y \in S : x <= y

(***************************************************************************)
(* Callbacks the environment can send.  The success_url carries the intent *)
(* as query parameters and the gateway adds `data`; every parameter is     *)
(* under the caller's control.  The callbacks are the well-formed one and  *)
(* every callback that differs from it in one parameter or in one field of *)
(* the payload, each with and without skip_verification=true.              *)
(***************************************************************************)
BasePayload ==
    [ transaction_code |-> "c1", status |-> "COMPLETE", total_amount |-> "100",
      transaction_uuid |-> "u1", product_code |-> "EPAYTEST",
      signature |-> "s1", error |-> None ]

PayloadAlternatives ==
    { <<"status", "PENDING">>, <<"status", None>>,
      <<"total_amount", "200">>, <<"total_amount", "100.9">>,
      <<"total_amount", "abc">>, <<"total_amount", None>>,
      <<"transaction_uuid", "u2">>, <<"transaction_uuid", None>>,
      <<"signature", None>>, <<"signature", "forged">>,
      <<"error", "x">> }

Payloads ==
    {BasePayload} \cup
    { [BasePayload EXCEPT ![a[1]] = a[2]] : a \in PayloadAlternatives }

\* the text of BasePayload followed by a segment that has no '='
TextWithMalformedPair == PayloadText(BasePayload) \o << << "junk" >> >>

DataAlternatives ==
    { b64encode(PayloadText(p)) : p \in Payloads } \cup
    { AbsentData, GarbageData, NotUtf8Data, b64encode(TextWithMalformedPair) }

BaseQuery(skip) ==
    [ data |-> b64encode(PayloadText(BasePayload)),
      booking_reference |-> "BK1",
      traveler_id |-> "", traveler_name |-> "N", traveler_email |-> "e1",
      traveler_phone |-> "p1", traveler_address |-> "A",
      package_id |-> "1", payment_amount |-> "100",
      skip_verification |-> skip,
      url_fixed |-> FALSE ]

QueryAlternatives ==
    { <<"booking_reference", "">>,
      <<"traveler_id", "1">>, <<"traveler_id", "9">>, <<"traveler_id", "x">>,
      <<"traveler_name", "">>,
      <<"traveler_email", "">>, <<"traveler_email", "e0">>,
      <<"traveler_phone", "">>, <<"traveler_phone", "p0">>,
      <<"traveler_address", "">>,
      <<"package_id", "">>, <<"package_id", "7">>, <<"package_id", "x">>,
      <<"payment_amount", "">>, <<"payment_amount", "200">>,
      <<"payment_amount", "100.9">>, <<"payment_amount", "abc">> }

Variants(base) ==
    { [base EXCEPT !.data = d] : d \in DataAlternatives } \cup
    { [base EXCEPT ![a[1]] = a[2]] : a \in QueryAlternatives }

\* the query initiate_esewa_payment builds for an intent with a traveler_id:
\* traveler_id, package_id, payment_amount and no traveler detail
ExistingTravelerQuery(skip) ==
    [BaseQuery(skip) EXCEPT !.traveler_id = "1", !.traveler_name = "",
                            !.traveler_email = "", !.traveler_phone = "",
                            !.traveler_address = ""]

\* a query without traveler_id that carries the name and the email only
NameAndEmailQuery(skip) ==
    [BaseQuery(skip) EXCEPT !.traveler_phone = "", !.traveler_address = ""]

\* the well-formed callback arriving with '?data=' in place of '&data=':
\* get() finds original_url != fixed_url, reads the same values from the
\* fixed URL and puts a FixedQueryDict in the place of request.GET
MalformedUrlQuery(skip) == [BaseQuery(skip) EXCEPT !.url_fixed = TRUE]

Callbacks ==
    Variants(BaseQuery("")) \cup Variants(BaseQuery("true")) \cup
    { ExistingTravelerQuery(skip) : skip \in {"", "true"} } \cup
    { NameAndEmailQuery(skip) : skip \in {"", "true"} } \cup
    { MalformedUrlQuery(skip) : skip \in {"", "true"} }

\* callbacks for one and the same payment, as the gateway and a retrying
\* browser deliver them: same payload, same intent
SamePaymentCallbacks == { BaseQuery(""), BaseQuery("true") }

(***************************************************************************)
(* EsewaPayment.verify_payment: the status-check call of the gateway       *)
(* client.  The call is kept as its arguments and the endpoint's answer.   *)
(***************************************************************************)
NoCall ==
    [ transaction_uuid |-> None, total_amount |-> None, product_code |-> None,
      response |-> NotCalled ]

VerifyCalls ==
    { [ transaction_uuid |-> u, total_amount |-> "100", product_code |-> c,
        response |-> r ] :
          u \in {"u1", None}, c \in {"EPAYTEST", None}, r \in RemoteResponses }

NoReturn ==
    [ returned |-> FALSE, raised |-> FALSE, success |-> FALSE, data |-> EmptyDict,
      transaction_code |-> None, error |-> None, message |-> "" ]

VerifyFailed ==
    [NoReturn EXCEPT !.returned = TRUE, !.error = "RequestException",
                     !.message = "Failed to verify payment with eSewa"]

\* raise_for_status() without effect: an error response is read like any other
raise_for_status_ignored(response) == FALSE

\* raise_for_status() raises HTTPError for 4xx and 5xx
raise_for_status(response) == response.http >= 400

\* the set of outcomes of one call: a non-JSON body makes response.json() raise
\* an error that is a RequestException (caught) or a plain ValueError (not
\* caught), depending on the installed requests version
verify_payment(call) ==
    LET response == call.response
        res == response.body
    IN  IF response.kind = "timeout" THEN {VerifyFailed}
        ELSE IF raise_for_status(response) THEN {VerifyFailed}
        ELSE IF ~response.json
        THEN {VerifyFailed, [NoReturn EXCEPT !.raised = TRUE]}
        ELSE IF Get(res, "status") = "COMPLETE"
        THEN {[NoReturn EXCEPT !.returned = TRUE, !.success = TRUE, !.data = res,
                  !.transaction_code = Get(res, "transaction_code"),
                  !.message = "Payment verified successfully"]}
        ELSE {[NoReturn EXCEPT !.returned = TRUE, !.data = res,
                  !.message = "Payment status"]}

VerifyPayment ==
    /\ vp_call # NoCall
    /\ vp_result = NoReturn
    /\ \E r \in verify_payment(vp_call) : vp_result' = r
    /\ UNCHANGED << store, seq, received, production, vp_call, handler_vars >>
    /\ UNCHANGED << url_vars, util_vars >>

(***************************************************************************)
(* Text of URLs.  A str is the sequence of its units: a unit is one of the *)
(* reserved characters ? & = + % and space, or a run of characters that    *)
(* urllib leaves alone (letters, digits, _ . - ~), or one percent escape.  *)
(* A value that may be a str or None carries its type.                     *)
(***************************************************************************)
Str(chars) == [type |-> "str", text |-> chars]

NoneValue == [type |-> "NoneType", text |-> << >>]

\* a local variable that was not assigned yet
Unset == [type |-> "unset", text |-> << >>]

\* str.count(c)
count(s, c) == Cardinality({ i \in 1..Len(s) : s[i] = c })

\* str.find(c, start): the 1-based position, 0 where python answers -1
find(s, c, start) ==
    LET hits == { i \in start..Len(s) : s[i] = c }
    IN  IF hits = {} THEN 0 ELSE Min(hits)

\* url[:pos] + c + url[pos + 1:], pos 1-based
replace_at(s, pos, c) ==
    SubSeq(s, 1, pos - 1) \o << c >> \o SubSeq(s, pos + 1, Len(s))

\* the function without its recursive call: only the second '?' is replaced
fix_esewa_callback_url_once(url) ==
    IF url.type # "str" \/ url.text = << >> THEN url
    ELSE IF count(url.text, "?") <= 1 THEN url
    ELSE Str(replace_at(url.text,
                        find(url.text, "?", find(url.text, "?", 1) + 1), "&"))

\* the function replacing every '?', the first one included
fix_esewa_callback_url_all(url) ==
    IF url.type # "str" \/ url.text = << >> THEN url
    ELSE IF count(url.text, "?") <= 1 THEN url
    ELSE Str([ i \in 1..Len(url.text) |->
                 IF url.text[i] = "?" THEN "&" ELSE url.text[i] ])

RECURSIVE fix_esewa_callback_url(_)
fix_esewa_callback_url(url) ==
    IF url.type # "str" \/ url.text = << >> THEN url
    ELSE LET question_mark_count == count(url.text, "?")
         IN  IF question_mark_count <= 1 THEN url
             ELSE LET first_q_pos == find(url.text, "?", 1)
                      second_q_pos == find(url.text, "?", first_q_pos + 1)
                      fixed == Str(replace_at(url.text, second_q_pos, "&"))
                  IN  IF second_q_pos = 0 THEN url
                      ELSE IF question_mark_count > 2
                      THEN fix_esewa_callback_url(fixed)
                      ELSE fixed

(***************************************************************************)
(* urllib.parse: urlencode / quote_plus on the way out, urlparse /         *)
(* parse_qs / unquote on the way in                                        *)
(***************************************************************************)
\* the percent escape quote() writes for a character outside its safe set
percent_escape ==
    ("?" :> "%3F") @@ ("&" :> "%26") @@ ("=" :> "%3D") @@ ("+" :> "%2B") @@
    ("%" :> "%25") @@ ("@" :> "%40")

\* the character unquote() reads for a percent escape
percent_decode ==
    ("%3F" :> "?") @@ ("%26" :> "&") @@ ("%3D" :> "=") @@ ("%2B" :> "+") @@
    ("%25" :> "%") @@ ("%40" :> "@") @@ ("%20" :> " ")

\* quote_plus without any escaping
quote_plus_raw(text) == text

\* quote_plus(text, safe=''): ' ' becomes '+', every other unsafe character
\* its percent escape
quote_plus(text) ==
    [ i \in 1..Len(text) |->
        IF text[i] = " " THEN "+"
        ELSE IF text[i] \in DOMAIN percent_escape THEN percent_escape[text[i]]
        ELSE text[i] ]

\* unquote(text.replace('+', ' '))
unquote_plus(text) ==
    [ i \in 1..Len(text) |->
        IF text[i] = "+" THEN " "
        ELSE IF text[i] \in DOMAIN percent_decode THEN percent_decode[text[i]]
        ELSE text[i] ]

\* urlencode(params, safe='') of a dict given as its items in insertion order
RECURSIVE urlencode(_)
urlencode(params) ==
    IF params = << >> THEN << >>
    ELSE quote_plus(Head(params)[1]) \o << "=" >> \o quote_plus(Head(params)[2]) \o
         (IF Len(params) > 1 THEN << "&" >> \o urlencode(Tail(params)) ELSE << >>)

\* str.split(sep)
RECURSIVE split(_, _)
split(text, sep) ==
    LET pos == find(text, sep, 1)
    IN  IF pos = 0 THEN << text >>
        ELSE << SubSeq(text, 1, pos - 1) >> \o
             split(SubSeq(text, pos + 1, Len(text)), sep)

\* one name_value of parse_qsl: split('=', 1), a missing '=' gives a blank value
name_value_pair(name_value) ==
    LET pos == find(name_value, "=", 1)
    IN  IF pos = 0 THEN << unquote_plus(name_value), << >> >>
        ELSE << unquote_plus(SubSeq(name_value, 1, pos - 1)),
                unquote_plus(SubSeq(name_value, pos + 1, Len(name_value))) >>

\* parse_qsl(qs, keep_blank_values=True): empty name_values are skipped
parse_qsl(qs) ==
    LET name_values == SelectSeq(split(qs, "&"), LAMBDA nv : nv # << >>)
    IN  [ i \in 1..Len(name_values) |-> name_value_pair(name_values[i]) ]

\* parse_qs(qs, keep_blank_values=True): name -> list of its values
parse_qs(qs) ==
    LET pairs == parse_qsl(qs)
    IN  [ name \in { pairs[i][1] : i \in 1..Len(pairs) } |->
            LET mine == SelectSeq(pairs, LAMBDA pair : pair[1] = name)
            IN  [ i \in 1..Len(mine) |-> mine[i][2] ] ]

\* urlparse(url).query, also the QUERY_STRING of the request: what follows
\* the first '?'
query_of(url) ==
    LET pos == find(url, "?", 1)
    IN  IF pos = 0 THEN << >> ELSE SubSeq(url, pos + 1, Len(url))

\* FixedQueryDict(params).get(key, default=''): the first value
FixedQueryDict_get(params, key) ==
    IF << key >> \in DOMAIN params THEN Str(params[<< key >>][1]) ELSE Str(<< >>)

\* QueryDict.get(key, default): the last value
QueryDict_get(params, key, default) ==
    IF << key >> \in DOMAIN params
    THEN Str(params[<< key >>][Len(params[<< key >>])])
    ELSE default

QueryKeys ==
    { "booking_reference", "traveler_id", "traveler_name", "traveler_email",
      "traveler_phone", "traveler_address", "package_id", "payment_amount" }

\* the query parameters get() reads in step 1, from request.GET or, when the
\* URL was changed, from the re-parsed fixed URL
query_parameters(original, fixed) ==
    IF original # fixed
    THEN LET query_params == parse_qs(query_of(fixed.text))
         IN  [ key \in QueryKeys \cup {"data"} |->
                 FixedQueryDict_get(query_params, key) ]
    ELSE LET query_params == parse_qs(query_of(original.text))
         IN  [ key \in QueryKeys \cup {"data"} |->
                 IF key = "data" THEN QueryDict_get(query_params, key, NoneValue)
                 ELSE QueryDict_get(query_params, key, Str(<< >>)) ]

(***************************************************************************)
(* NestedBookingWithEsewaSerializer: validated_data and the success_url    *)
(***************************************************************************)
IntValue(n) == [type |-> "int", value |-> n]

NoneInt == [type |-> "NoneType", value |-> 0]

\* bool(v) of a str, an int or None
Truthy(v) ==
    IF v.type = "str" THEN v.text # << >>
    ELSE IF v.type = "int" THEN v.value # 0
    ELSE FALSE

\* str(n) for the integers of the model
str_int ==
    (0 :> "0") @@ (1 :> "1") @@ (7 :> "7") @@ (9 :> "9") @@
    (100 :> "100") @@ (200 :> "200") @@ (-100 :> "-100") @@ (-101 :> "-101") @@
    (101 :> "101") @@ (201 :> "201")

TravelerDetails ==
    << "traveler_name", "traveler_email", "traveler_phone", "traveler_address" >>

\* data submitted to the serializer, after the fields have validated each
\* value; payment_amount is a Decimal in hundredths
IntentData ==
    [ traveler_id : { NoneInt, IntValue(0), IntValue(1), IntValue(9) },
      traveler_name : { NoneValue, Str(<< >>), Str(<< "N" >>),
                        Str(<< "N", " ", "M" >>) },
      traveler_email : { NoneValue, Str(<< "e", "@", "x.np" >>) },
      traveler_phone : { NoneValue, Str(<< "+", "977" >>) },
      traveler_address : { NoneValue, Str(<< "A", "?", "B", "&", "C", "=", "D" >>),
                           Str(<< "50", "%" >>) },
      package_id : { IntValue(1), IntValue(7) },
      payment_amount : { 10000, 10090, 20000 } ]

\* NestedBookingWithEsewaSerializer.validate: TRUE when it returns data
validate(data, st) ==
    LET has_traveler_id == Truthy(data.traveler_id)
        has_traveler_details ==
            \A i \in 1..Len(TravelerDetails) : Truthy(data[TravelerDetails[i]])
    IN  /\ has_traveler_id \/ has_traveler_details
        /\ ~(has_traveler_id /\ has_traveler_details)
        /\ data.package_id.value \in Packages
        /\ has_traveler_id =>
               \E t \in st.travelers : t.traveler_id = data.traveler_id.value

RECURSIVE detail_params(_, _)
detail_params(data, i) ==
    IF i > Len(TravelerDetails) THEN << >>
    ELSE (IF Truthy(data[TravelerDetails[i]])
          THEN << << << TravelerDetails[i] >>, data[TravelerDetails[i]].text >> >>
          ELSE << >>) \o detail_params(data, i + 1)

\* booking_params with the traveler details added whatever traveler_id is
booking_params_of_always_details(data, booking_reference) ==
    << << << "booking_reference" >>, << booking_reference >> >>,
       << << "package_id" >>, << str_int[data.package_id.value] >> >>,
       << << "payment_amount" >>, << str_int[data.payment_amount \div 100] >> >> >> \o
    (IF Truthy(data.traveler_id)
     THEN << << << "traveler_id" >>, << str_int[data.traveler_id.value] >> >> >>
     ELSE << >>) \o
    detail_params(data, 1)

\* booking_params of initiate_esewa_payment, as its items in insertion order
booking_params_of(data, booking_reference) ==
    << << << "booking_reference" >>, << booking_reference >> >>,
       << << "package_id" >>, << str_int[data.package_id.value] >> >>,
       << << "payment_amount" >>, << str_int[data.payment_amount \div 100] >> >> >> \o
    (IF Truthy(data.traveler_id)
     THEN << << << "traveler_id" >>, << str_int[data.traveler_id.value] >> >> >>
     ELSE detail_params(data, 1))

\* the gateway redirects the browser to success_url with `data` appended,
\* after '?' or after '&'
GatewayRedirect ==
    /\ success_url # Unset
    /\ pr_result.returned
    /\ original_url = Unset
    /\ \E sep \in {"?", "&"} :
           original_url' = Str(success_url.text \o << sep, "data", "=", "D" >>)
    /\ UNCHANGED << store, seq, received, production, vp_call, vp_result,
                    handler_vars, intent, booking_params, success_url,
                    fixed_url, extracted >>
    /\ UNCHANGED util_vars

\* get(): fixed_url = fix_esewa_callback_url(original_url)
FixUrl ==
    /\ original_url # Unset
    /\ fixed_url = Unset
    /\ fixed_url' = fix_esewa_callback_url(original_url)
    /\ UNCHANGED << store, seq, received, production, vp_call, vp_result,
                    handler_vars, intent, booking_params, success_url,
                    original_url, extracted >>
    /\ UNCHANGED util_vars

\* get(), step 1: read the query parameters
ExtractQuery ==
    /\ fixed_url # Unset
    /\ fixed_url.type = "str"
    /\ extracted = EmptyDict
    /\ extracted' = query_parameters(original_url, fixed_url)
    /\ UNCHANGED << store, seq, received, production, vp_call, vp_result,
                    handler_vars, intent, booking_params, success_url,
                    original_url, fixed_url >>
    /\ UNCHANGED util_vars

(***************************************************************************)
(* EsewaPayment.generate_signature and EsewaPayment.create_payment_request *)
(***************************************************************************)
merchant_id == "EPAYTEST"

secret_key == "8gBm/:&EnhH.1/q"

\* base64(HMAC-SHA256(secret_key, message)): kept as the term of its key and
\* its message, so two signatures are equal exactly when both are
generate_signature(message) ==
    [alg |-> "HMAC-SHA256/base64", key |-> secret_key, message |-> message]

\* the signed message with the product code put first
signature_message_code_first(total_amount_str, transaction_uuid, product_code) ==
    << "product_code", "=", product_code, ",",
       "total_amount", "=", total_amount_str, ",",
       "transaction_uuid", "=", transaction_uuid >>

\* f"total_amount={...},transaction_uuid={...},product_code={...}"
signature_message(total_amount_str, transaction_uuid, product_code) ==
    << "total_amount", "=", total_amount_str, ",",
       "transaction_uuid", "=", transaction_uuid, ",",
       "product_code", "=", product_code >>

\* str.startswith(prefix) on the units of a text
startswith(text, prefix) ==
    /\ Len(text) >= Len(prefix)
    /\ SubSeq(text, 1, Len(prefix)) = prefix

\* the test of lines 137 and 139: not url or not url.startswith('http')
url_refused(url) == ~Truthy(url) \/ ~startswith(url.text, << "http" >>)

\* the redirect URLs of the model; "http" is a unit of its own, so that a
\* text can start with it without being a URL
RedirectUrls ==
    { Str(<< "http", "://", "h.np", "/ok", "?", "a", "=", "1" >>),
      Str(<< "http", "s", "://", "h.np", "/fail" >>),
      Str(<< "http", "x" >>),
      Str(<< "/ok" >>),
      Str(<< >>),
      NoneValue }

\* the arguments of create_payment_request
PaymentRequestCalls ==
    [ amount : {"100", "100.9", "-100.9", "abc"},
      total_amount : {"100", "100.9", "200", "-100.9"},
      product_code : {"BK1"},
      success_url : RedirectUrls,
      failure_url : RedirectUrls,
      transaction_uuid : {None, "", "u1"} ]

NoRequestCall ==
    [ amount |-> None, total_amount |-> None, product_code |-> None,
      success_url |-> NoneValue, failure_url |-> NoneValue,
      transaction_uuid |-> None ]

NoPaymentData ==
    [ amount |-> None, tax_amount |-> None, total_amount |-> None,
      transaction_uuid |-> None, product_code |-> None,
      product_service_charge |-> None, product_delivery_charge |-> None,
      success_url |-> NoneValue, failure_url |-> NoneValue,
      signed_field_names |-> None, signature |-> generate_signature(<< >>) ]

NoRequestResult ==
    [ returned |-> FALSE, raised |-> FALSE, error |-> "",
      payment_data |-> NoPaymentData ]

RequestRaised(error) ==
    [NoRequestResult EXCEPT !.raised = TRUE, !.error = error]

\* create_payment_request(amount, product_code, total_amount, success_url,
\* failure_url, transaction_uuid); uuid4 is the value uuid.uuid4() gives
create_payment_request(call, uuid4) ==
    IF ~IsFloatText(call.amount) \/ ~IsFloatText(call.total_amount)
    THEN RequestRaised("could not convert string to float")
    ELSE
    LET transaction_uuid ==
            IF call.transaction_uuid = None THEN uuid4 ELSE call.transaction_uuid
        amount_int == int_float(call.amount)
        tax_amount == "0"
        product_service_charge == "0"
        product_delivery_charge == "0"
        calculated_total ==
            amount_int + int_text[tax_amount] + int_text[product_service_charge]
                + int_text[product_delivery_charge]
        total_amount_int ==
            IF calculated_total # int_float(call.total_amount)
            THEN calculated_total
            ELSE int_float(call.total_amount)
        amount_str == str_int[amount_int]
        total_amount_str == str_int[total_amount_int]
        actual_product_code == merchant_id
        signature ==
            generate_signature(
                signature_message(total_amount_str, transaction_uuid,
                                  actual_product_code))
        payment_data ==
            [ amount |-> amount_str,
              tax_amount |-> tax_amount,
              total_amount |-> total_amount_str,
              transaction_uuid |-> transaction_uuid,
              product_code |-> actual_product_code,
              product_service_charge |-> product_service_charge,
              product_delivery_charge |-> product_delivery_charge,
              success_url |-> call.success_url,
              failure_url |-> call.failure_url,
              signed_field_names |-> "total_amount,transaction_uuid,product_code",
              signature |-> signature ]
        total_check ==
            int_text[amount_str] + int_text[tax_amount]
                + int_text[product_service_charge]
                + int_text[product_delivery_charge]
    IN  IF url_refused(call.success_url)
        THEN RequestRaised("Invalid success_url")
        ELSE IF url_refused(call.failure_url)
        THEN RequestRaised("Invalid failure_url")
        ELSE IF transaction_uuid = ""
        THEN RequestRaised("Empty required fields")
        ELSE IF total_check # int_text[total_amount_str]
        THEN RequestRaised("Invalid total_amount calculation")
        ELSE [NoRequestResult EXCEPT !.returned = TRUE,
                                     !.payment_data = payment_data]

CreatePaymentRequest ==
    /\ pr_call # NoRequestCall
    /\ pr_result = NoRequestResult
    /\ \E uuid4 \in {"g1", "g2"} :
           pr_result' = create_payment_request(pr_call, uuid4)
    /\ UNCHANGED << store, seq, received, production, vp_call, vp_result,
                    handler_vars, url_vars, pr_call, dp_input, dp_result,
                    complete_response >>

(***************************************************************************)
(* NestedBookingWithEsewaSerializer.initiate_esewa_payment                 *)
(***************************************************************************)
\* the call of create_payment_request with round(float(amount)) as amount
payment_request_call_rounded(data, booking_reference, url, transaction_uuid) ==
    [ amount |-> str_int[(data.payment_amount + 50) \div 100],
      total_amount |-> str_int[(data.payment_amount + 50) \div 100],
      product_code |-> booking_reference,
      success_url |-> url,
      failure_url |-> Str(<< "http", "://localhost:8000", "/api/esewa/v2/failure/" >>),
      transaction_uuid |-> transaction_uuid ]

\* the call of create_payment_request of lines 132-147: amount and
\* total_amount are both amount_int = int(float(amount)), here as its numeral
payment_request_call(data, booking_reference, url, transaction_uuid) ==
    [ amount |-> str_int[data.payment_amount \div 100],
      total_amount |-> str_int[data.payment_amount \div 100],
      product_code |-> booking_reference,
      success_url |-> url,
      failure_url |-> Str(<< "http", "://localhost:8000", "/api/esewa/v2/failure/" >>),
      transaction_uuid |-> transaction_uuid ]

\* initiate_esewa_payment: booking_params, the success_url and the signed
\* payment request (payment_form_data)
InitiateEsewaPayment ==
    /\ intent # Unset
    /\ success_url = Unset
    /\ booking_params' = booking_params_of(intent, "BK1")
    /\ success_url' =
           Str(<< "http", "://localhost:8000", "/api/esewa/v2/success/", "?" >> \o
               urlencode(booking_params'))
    /\ \E transaction_uuid \in {"g1", "g2"} :
           /\ pr_call' = payment_request_call(intent, "BK1", success_url',
                                              transaction_uuid)
           /\ pr_result' = create_payment_request(pr_call', transaction_uuid)
    /\ UNCHANGED << store, seq, received, production, vp_call, vp_result,
                    handler_vars, intent, original_url, fixed_url, extracted,
                    dp_input, dp_result, complete_response >>

(***************************************************************************)
(* EsewaPayment.decode_payment_response called on its own                  *)
(***************************************************************************)
NoDecodeInput == [kind |-> "no_call", text |-> << >>]

NoDecodeResult == [returned |-> FALSE, raised |-> FALSE, params |-> EmptyDict]

\* the except clause of line 266 catches every Exception, so the call returns
DecodePaymentResponse ==
    /\ dp_input # NoDecodeInput
    /\ ~dp_result.returned
    /\ dp_result' = [NoDecodeResult EXCEPT !.returned = TRUE,
                        !.params = decode_payment_response(dp_input)]
    /\ UNCHANGED << store, seq, received, production, vp_call, vp_result,
                    handler_vars, url_vars, pr_call, pr_result, dp_input,
                    complete_response >>

(***************************************************************************)
(* EsewaBookingCompleteView.post (POST esewa/booking/complete/) with       *)
(* CreateBookingSerializer                                                 *)
(***************************************************************************)
\* booking_data of the request body; traveler_id 0 stands for no traveler_id
\* and empty = TRUE for a body without booking_data
NoBookingData ==
    [ empty |-> TRUE, traveler_id |-> 0, traveler_name |-> "",
      traveler_email |-> "", traveler_phone |-> "", traveler_address |-> "",
      package_id |-> 0, payment_amount |-> "" ]

BookingData ==
    { NoBookingData } \cup
    [ empty : {FALSE}, traveler_id : {0, 1, 9},
      traveler_name : {"", "N"}, traveler_email : {"e1"},
      traveler_phone : {"p1"}, traveler_address : {"A"},
      package_id : {1, 7}, payment_amount : {"100"} ]

\* request.data of the POST
CompleteBodies ==
    [ payment_verified : BOOLEAN, reference_id : {None, "r1"},
      booking_data : BookingData ]

NoCompleteResponse ==
    [ http |-> 0, success |-> FALSE, error |-> "",
      ticket_id |-> 0, payment_id |-> 0, traveler_id |-> 0 ]

CompleteRefused(error) == [NoCompleteResponse EXCEPT !.http = 400, !.error = error]

\* CreateBookingSerializer.validate: TRUE when it returns data
CreateBookingSerializer_validate(data, st) ==
    /\ IF data.traveler_id = 0
       THEN /\ data.traveler_name # ""
            /\ data.traveler_email # ""
            /\ data.traveler_phone # ""
            /\ data.traveler_address # ""
       ELSE \E t \in st.travelers : t.traveler_id = data.traveler_id
    /\ data.package_id \in Packages

\* the rows CreateBookingSerializer.create writes in its atomic block; the
\* audit fields of the Payment are left null and payment_method is the default
CreateBookingSerializer_create(data, sq, serial) ==
    LET traveler_id ==
            IF data.traveler_id # 0 THEN data.traveler_id ELSE sq.traveler + 1
    IN  [ travelers |->
              IF data.traveler_id # 0 THEN {}
              ELSE { [ traveler_id |-> traveler_id,
                       name |-> data.traveler_name,
                       email |-> data.traveler_email,
                       phone_number |-> data.traveler_phone,
                       address |-> data.traveler_address,
                       cb |-> serial ] },
          tickets |->
              { [ ticket_id |-> sq.ticket + 1, traveler |-> traveler_id,
                  package |-> data.package_id, cb |-> serial ] },
          payments |->
              { [ payment_id |-> sq.payment + 1,
                  amount |-> float_hundredths[data.payment_amount],
                  traveler |-> traveler_id,
                  ticket |-> sq.ticket + 1,
                  package |-> data.package_id,
                  esewa_transaction_uuid |-> None,
                  esewa_transaction_code |-> None,
                  esewa_status |-> None,
                  esewa_signature |-> None,
                  payment_method |-> "esewa",
                  cb |-> serial ] } ]

\* post(): payment_verified of the body is the only evidence of payment
EsewaBookingCompletePost ==
    /\ received < MaxCallbacks
    /\ received' = received + 1
    /\ \E body \in CompleteBodies :
        IF ~body.payment_verified
        THEN /\ complete_response' =
                    CompleteRefused("Payment must be verified before completing booking")
             /\ UNCHANGED << store, seq >>
        ELSE IF body.booking_data.empty
        THEN /\ complete_response' = CompleteRefused("Booking data is required")
             /\ UNCHANGED << store, seq >>
        ELSE IF ~CreateBookingSerializer_validate(body.booking_data, store)
        THEN /\ complete_response' = CompleteRefused("errors")
             /\ UNCHANGED << store, seq >>
        ELSE \E db_ok \in BOOLEAN :
             IF db_ok
             THEN LET rows == CreateBookingSerializer_create(body.booking_data, seq,
                                                             received + 1)
                      t == CHOOSE t \in rows.tickets : TRUE
                  IN  /\ store' = Commit(store, rows)
                      /\ seq' = [ traveler |-> seq.traveler + Cardinality(rows.travelers),
                                  ticket |-> seq.ticket + 1,
                                  payment |-> seq.payment + 1 ]
                      /\ complete_response' =
                             [ http |-> 201, success |-> TRUE, error |-> "",
                               ticket_id |-> t.ticket_id,
                               payment_id |-> seq.payment + 1,
                               traveler_id |-> t.traveler ]
             ELSE \* the exception leaves post(): rolled back, answered with 500
                  /\ complete_response' =
                         [NoCompleteResponse EXCEPT !.http = 500, !.error = "DatabaseError"]
                  /\ UNCHANGED << store, seq >>
    /\ UNCHANGED << production, vp_call, vp_result, handler_vars, url_vars,
                    pr_call, pr_result, dp_input, dp_result >>

\* no call of the gateway client on its own has been made
NoUtilWork ==
    /\ pr_call = NoRequestCall
    /\ pr_result = NoRequestResult
    /\ dp_input = NoDecodeInput
    /\ dp_result = NoDecodeResult
    /\ complete_response = NoCompleteResponse

\* nothing of the intent pipeline has run
NoIntentWork ==
    /\ intent = Unset
    /\ booking_params = << >>
    /\ success_url = Unset
    /\ original_url = Unset
    /\ fixed_url = Unset
    /\ extracted = EmptyDict

(***************************************************************************)
(* Init: a database holding the packages and one traveler, no worker busy  *)
(***************************************************************************)
IdleWorkers ==
    /\ pc = [w \in Workers |-> "idle"]
    /\ cb = [w \in Workers |-> 0]
    /\ GET = [w \in Workers |-> BaseQuery("")]
    /\ decoded_data = [w \in Workers |-> EmptyDict]
    /\ remote = [w \in Workers |-> NotCalled]
    /\ verification_result = [w \in Workers |-> EmptyDict]
    /\ amount_checked = [w \in Workers |-> FALSE]
    /\ traveler = [w \in Workers |-> 0]
    /\ ticket = [w \in Workers |-> 0]
    /\ tx = [w \in Workers |-> NoRows]
    /\ result = [w \in Workers |-> NoResult]

Init ==
    /\ store = [NoRows EXCEPT !.travelers = {SeedTraveler}]
    /\ seq = [traveler |-> 1, ticket |-> 0, payment |-> 0]
    /\ received = 0
    /\ production \in BOOLEAN
    /\ IdleWorkers
    /\ vp_call = NoCall
    /\ vp_result = NoReturn
    /\ NoIntentWork
    /\ NoUtilWork

(***************************************************************************)
(* EsewaV2VerifyAndBookView.get, one action per step of the handler        *)
(***************************************************************************)
Terminal == {"Committed", "Rejected", "Exception"}

\* return Response({... 'success': False ...}) before the atomic block
Reject(w, r) ==
    /\ pc' = [pc EXCEPT ![w] = "Rejected"]
    /\ result' = [result EXCEPT ![w] = r]

\* an exception inside the atomic block: rows dropped, then the except clause answers
Abort(w, r) ==
    /\ store' = Rollback(store, tx[w])
    /\ tx' = [tx EXCEPT ![w] = NoRows]
    /\ pc' = [pc EXCEPT ![w] = "Rejected"]
    /\ result' = [result EXCEPT ![w] = r]

\* steps 1 and 2: read the query parameters, require `data`
Receive(w, callbacks) ==
    /\ pc[w] \in Terminal \cup {"idle"}
    /\ received < MaxCallbacks
    /\ \E q \in callbacks :
        /\ GET' = [GET EXCEPT ![w] = q]
        /\ IF q.data.kind = "absent"
           THEN Reject(w, Rejected(400, "Missing eSewa payment data",
                                   "The data parameter from eSewa is required"))
           ELSE /\ pc' = [pc EXCEPT ![w] = "decode"]
                /\ result' = [result EXCEPT ![w] = NoResult]
    /\ received' = received + 1
    /\ cb' = [cb EXCEPT ![w] = received + 1]
    /\ decoded_data' = [decoded_data EXCEPT ![w] = EmptyDict]
    /\ remote' = [remote EXCEPT ![w] = NotCalled]
    /\ verification_result' = [verification_result EXCEPT ![w] = EmptyDict]
    /\ amount_checked' = [amount_checked EXCEPT ![w] = FALSE]
    /\ traveler' = [traveler EXCEPT ![w] = 0]
    /\ ticket' = [ticket EXCEPT ![w] = 0]
    /\ UNCHANGED << store, seq, production, tx, vp_call, vp_result >>
    /\ UNCHANGED << url_vars, util_vars >>

\* step 3: decode the Base64 payload; step 4 reads the decoded fields
Decode(w) ==
    /\ pc[w] = "decode"
    /\ LET d == decode_payment_response(GET[w].data)
       IN  IF "error" \in DOMAIN d
           THEN /\ Reject(w, Rejected(400, "Invalid Base64 data",
                          GetOr(d, "message", "Failed to decode eSewa response")))
                /\ UNCHANGED decoded_data
           ELSE /\ decoded_data' = [decoded_data EXCEPT ![w] = d]
                /\ pc' = [pc EXCEPT ![w] = "verify"]
                /\ UNCHANGED result
    /\ UNCHANGED << store, seq, received, production, cb, GET, remote,
                    verification_result, amount_checked, traveler, ticket, tx,
                    vp_call, vp_result >>
    /\ UNCHANGED << url_vars, util_vars >>

\* step 5: the verification call, or its bypass
Verify(w) ==
    /\ pc[w] = "verify"
    /\ IF lower(GET[w].skip_verification) = "true"
       THEN /\ verification_result' = [verification_result EXCEPT ![w] =
                   ("status" :> "COMPLETE") @@
                   ("transaction_code" :> Get(decoded_data[w], "transaction_code")) @@
                   ("total_amount" :> Get(decoded_data[w], "total_amount")) @@
                   ("skipped" :> "True")]
            /\ pc' = [pc EXCEPT ![w] = "check_status"]
            /\ UNCHANGED << remote, result >>
       ELSE \E verify_response \in RemoteResponses :
            /\ remote' = [remote EXCEPT ![w] = verify_response]
            /\ IF verify_response.kind = "timeout"
               THEN /\ Reject(w, Rejected(400, "Verification request failed",
                                          "RequestException"))
                    /\ UNCHANGED verification_result
               ELSE IF verify_response.http = 404
               THEN /\ Reject(w, [Rejected(400, "eSewa verification failed",
                                           "eSewa transaction not found (404)")
                                     EXCEPT !.api_status_code = 404])
                    /\ UNCHANGED verification_result
               ELSE IF ~verify_response.json
               THEN /\ Reject(w, [Rejected(400, "eSewa verification failed",
                                           "eSewa API returned invalid response")
                                     EXCEPT !.api_status_code = verify_response.http])
                    /\ UNCHANGED verification_result
               ELSE /\ verification_result' =
                           [verification_result EXCEPT ![w] = verify_response.body]
                    /\ pc' = [pc EXCEPT ![w] = "check_status"]
                    /\ UNCHANGED result
    /\ UNCHANGED << store, seq, received, production, cb, GET, decoded_data,
                    amount_checked, traveler, ticket, tx, vp_call, vp_result >>
    /\ UNCHANGED << url_vars, util_vars >>

\* step 6: verification_result.get('status') must be COMPLETE
CheckStatus(w) ==
    /\ pc[w] = "check_status"
    /\ IF Get(verification_result[w], "status") # "COMPLETE"
       THEN Reject(w, [Rejected(400, "Transaction not complete", "verification_result")
                          EXCEPT !.transaction_status =
                                     Get(verification_result[w], "status")])
       ELSE /\ pc' = [pc EXCEPT ![w] = "check_amount"]
            /\ UNCHANGED result
    /\ UNCHANGED << store, seq, received, production, cb, GET, decoded_data,
                    remote, verification_result, amount_checked, traveler,
                    ticket, tx, vp_call, vp_result >>
    /\ UNCHANGED << url_vars, util_vars >>

\* step 7 as a function of the two texts: the comparison is made only when
\* both are non-empty, and float() raises on a text that is not a number
amount_check(payment_amount, total_amount) ==
    IF ~Falsy(payment_amount) /\ ~Falsy(total_amount)
    THEN IF ~IsFloatText(payment_amount) \/ ~IsFloatText(total_amount)
         THEN "ValueError"
         ELSE IF int_float(payment_amount) # int_float(total_amount)
              THEN "mismatch"
              ELSE "verified"
    ELSE "skipped"

\* step 7: compare the amounts, only when both texts are non-empty
CheckAmount(w) ==
    /\ pc[w] = "check_amount"
    /\ LET payment_amount == GET[w].payment_amount
           total_amount == Get(decoded_data[w], "total_amount")
           outcome == amount_check(payment_amount, total_amount)
       IN  IF outcome = "ValueError"
           THEN \* float() raises ValueError outside every try block
                /\ pc' = [pc EXCEPT ![w] = "Exception"]
                /\ result' = [result EXCEPT ![w] = Unhandled]
                /\ UNCHANGED amount_checked
           ELSE IF outcome = "mismatch"
           THEN /\ amount_checked' = [amount_checked EXCEPT ![w] = TRUE]
                /\ Reject(w, Rejected(400, "Amount mismatch", "expected/received"))
           ELSE IF outcome = "verified"
           THEN /\ amount_checked' = [amount_checked EXCEPT ![w] = TRUE]
                /\ pc' = [pc EXCEPT ![w] = "validate_fields"]
                /\ UNCHANGED result
           ELSE /\ pc' = [pc EXCEPT ![w] = "validate_fields"]
                /\ UNCHANGED << result, amount_checked >>
    /\ UNCHANGED << store, seq, received, production, cb, GET, decoded_data,
                    remote, verification_result, traveler, ticket, tx,
                    vp_call, vp_result >>
    /\ UNCHANGED << url_vars, util_vars >>

\* the tests of step 8 with those of the phone and the address exchanged
RequiredFields_address_first ==
    << "traveler_name", "traveler_email", "traveler_address", "traveler_phone",
       "package_id", "payment_amount" >>

RequiredFields ==
    << "traveler_name", "traveler_email", "traveler_phone", "traveler_address",
       "package_id", "payment_amount" >>

\* the fields of RequiredFields[i..] that are empty in q, in order
RECURSIVE MissingFrom(_, _)
MissingFrom(q, i) ==
    IF i > Len(RequiredFields) THEN << >>
    ELSE (IF Falsy(q[RequiredFields[i]]) THEN << RequiredFields[i] >> ELSE << >>)
         \o MissingFrom(q, i + 1)

missing_fields(q) == MissingFrom(q, 1)

\* step 8: required booking fields
ValidateFields(w) ==
    /\ pc[w] = "validate_fields"
    /\ IF missing_fields(GET[w]) # << >>
       THEN Reject(w, [Rejected(400, "Missing required booking information",
                                "missing_fields")
                          EXCEPT !.missing_fields = missing_fields(GET[w])])
       ELSE /\ pc' = [pc EXCEPT ![w] = "resolve_traveler"]
            /\ UNCHANGED result
    /\ UNCHANGED << store, seq, received, production, cb, GET, decoded_data,
                    remote, verification_result, amount_checked, traveler,
                    ticket, tx, vp_call, vp_result >>
    /\ UNCHANGED << url_vars, util_vars >>

\* a filter on the email alone
Q_email_only(t, q) == t.email = q.traveler_email

\* models.Q(email=traveler_email) | models.Q(phone_number=traveler_phone)
Q_email_or_phone(t, q) ==
    \/ t.email = q.traveler_email
    \/ t.phone_number = q.traveler_phone

\* the rows with the id of the query and, when there is none, the rows that
\* match its email or phone
travelers_with_id_or_contact(travelers, q) ==
    IF \E t \in travelers : t.traveler_id = int_text[q.traveler_id]
    THEN { t \in travelers : t.traveler_id = int_text[q.traveler_id] }
    ELSE { t \in travelers : Q_email_or_phone(t, q) }

\* the rows Traveler.objects.get(traveler_id=int(traveler_id)) selects from
travelers_with_id(travelers, q) ==
    { t \in travelers : t.traveler_id = int_text[q.traveler_id] }

\* step 9, first part: enter the atomic block and get or create the traveler
ResolveTraveler(w) ==
    /\ pc[w] = "resolve_traveler"
    /\ LET traveler_id == GET[w].traveler_id
           matching == { t \in Visible(w).travelers : Q_email_or_phone(t, GET[w]) }
           created == [ traveler_id |-> seq.traveler + 1,
                        name |-> GET[w].traveler_name,
                        email |-> GET[w].traveler_email,
                        phone_number |-> GET[w].traveler_phone,
                        address |-> GET[w].traveler_address,
                        cb |-> cb[w] ]
       IN  IF ~Falsy(traveler_id)
           THEN IF ~IsIntText(traveler_id)
                THEN \* int() raises ValueError: except ValueError
                     /\ Abort(w, Rejected(400, "Booking creation failure",
                                          "invalid literal for int()"))
                     /\ UNCHANGED << seq, traveler >>
                ELSE IF travelers_with_id(Visible(w).travelers, GET[w]) # {}
                THEN /\ traveler' = [traveler EXCEPT ![w] =
                            Min({ t.traveler_id :
                                    t \in travelers_with_id(Visible(w).travelers,
                                                            GET[w]) })]
                     /\ pc' = [pc EXCEPT ![w] = "get_package"]
                     /\ UNCHANGED << store, seq, tx, result >>
                ELSE \* Traveler.DoesNotExist is re-raised
                     /\ Abort(w, Rejected(404, "Traveler creation failure",
                                          "Traveler not found"))
                     /\ UNCHANGED << seq, traveler >>
           ELSE IF matching # {}
                THEN \* .first() of an unordered queryset orders by primary key
                     /\ traveler' = [traveler EXCEPT ![w] =
                                        Min({ t.traveler_id : t \in matching })]
                     /\ pc' = [pc EXCEPT ![w] = "get_package"]
                     /\ UNCHANGED << store, seq, tx, result >>
                ELSE \E db_ok \in BOOLEAN :
                     IF db_ok
                     THEN /\ tx' = [tx EXCEPT ![w].travelers = @ \cup {created}]
                          /\ seq' = [seq EXCEPT !.traveler = @ + 1]
                          /\ traveler' = [traveler EXCEPT ![w] = created.traveler_id]
                          /\ pc' = [pc EXCEPT ![w] = "get_package"]
                          /\ UNCHANGED << store, result >>
                     ELSE /\ Abort(w, Rejected(500, "Booking creation failure",
                                               "DatabaseError"))
                          /\ UNCHANGED << seq, traveler >>
    /\ UNCHANGED << received, production, cb, GET, decoded_data, remote,
                    verification_result, amount_checked, ticket,
                    vp_call, vp_result >>
    /\ UNCHANGED << url_vars, util_vars >>

\* step 9: Package.objects.get(id=int(package_id))
GetPackage(w) ==
    /\ pc[w] = "get_package"
    /\ IF IsIntText(GET[w].package_id) /\ int_text[GET[w].package_id] \in Packages
       THEN /\ pc' = [pc EXCEPT ![w] = "create_ticket"]
            /\ UNCHANGED << store, tx, result >>
       ELSE \* Package.DoesNotExist or ValueError, re-raised as ValueError
            Abort(w, Rejected(400, "Booking creation failure",
                              "Package with ID not found"))
    /\ UNCHANGED << seq, received, production, cb, GET, decoded_data, remote,
                    verification_result, amount_checked, traveler, ticket,
                    vp_call, vp_result >>
    /\ UNCHANGED << url_vars, util_vars >>

\* step 9: Ticket.objects.create
CreateTicket(w) ==
    /\ pc[w] = "create_ticket"
    /\ \E db_ok \in BOOLEAN :
       IF db_ok
       THEN /\ tx' = [tx EXCEPT ![w].tickets = @ \cup
                       { [ ticket_id |-> seq.ticket + 1,
                           traveler |-> traveler[w],
                           package |-> int_text[GET[w].package_id],
                           cb |-> cb[w] ] }]
            /\ seq' = [seq EXCEPT !.ticket = @ + 1]
            /\ ticket' = [ticket EXCEPT ![w] = seq.ticket + 1]
            /\ pc' = [pc EXCEPT ![w] = "create_payment"]
            /\ UNCHANGED << store, result >>
       ELSE /\ Abort(w, Rejected(500, "Booking creation failure", "DatabaseError"))
            /\ UNCHANGED << seq, ticket >>
    /\ UNCHANGED << received, production, cb, GET, decoded_data, remote,
                    verification_result, amount_checked, traveler,
                    vp_call, vp_result >>
    /\ UNCHANGED << url_vars, util_vars >>

\* step 9, last part: Payment.objects.create, leave the atomic block, redirect
CreatePayment(w) ==
    /\ pc[w] = "create_payment"
    /\ LET amount == IF ~Falsy(GET[w].payment_amount)
                     THEN GET[w].payment_amount
                     ELSE Get(decoded_data[w], "total_amount")
           payment ==
               [ payment_id |-> seq.payment + 1,
                 amount |-> float_hundredths[amount],
                 traveler |-> traveler[w],
                 ticket |-> ticket[w],
                 package |-> int_text[GET[w].package_id],
                 esewa_transaction_uuid |-> Get(decoded_data[w], "transaction_uuid"),
                 esewa_transaction_code |-> Get(decoded_data[w], "transaction_code"),
                 esewa_status |-> Get(decoded_data[w], "status"),
                 esewa_signature |-> Get(decoded_data[w], "signature"),
                 payment_method |-> "esewa",
                 cb |-> cb[w] ]
       IN  IF GET[w].url_fixed
           THEN \* dict(request.GET) on a FixedQueryDict, which has keys() and no
                \* __getitem__: TypeError, except Exception
                /\ Abort(w, Rejected(500, "Booking creation failure", "TypeError"))
                /\ UNCHANGED seq
           ELSE IF ~IsFloatText(amount)
           THEN \* DecimalField rejects the text: ValidationError, except Exception
                /\ Abort(w, Rejected(500, "Booking creation failure", "ValidationError"))
                /\ UNCHANGED seq
           ELSE \E db_ok \in BOOLEAN :
                IF db_ok
                THEN /\ store' = Commit(store, [tx[w] EXCEPT !.payments = @ \cup {payment}])
                     /\ tx' = [tx EXCEPT ![w] = NoRows]
                     /\ seq' = [seq EXCEPT !.payment = @ + 1]
                     /\ pc' = [pc EXCEPT ![w] = "Committed"]
                     /\ result' = [result EXCEPT ![w] =
                            [NoResult EXCEPT !.kind = "Committed", !.http = 302,
                                !.transaction_status = "COMPLETE",
                                !.ticket_id = ticket[w],
                                !.payment_id = payment.payment_id,
                                !.traveler_id = traveler[w],
                                !.transaction_uuid = payment.esewa_transaction_uuid]]
                ELSE /\ Abort(w, Rejected(500, "Booking creation failure", "DatabaseError"))
                     /\ UNCHANGED seq
    /\ UNCHANGED << received, production, cb, GET, decoded_data, remote,
                    verification_result, amount_checked, traveler, ticket,
                    vp_call, vp_result >>
    /\ UNCHANGED << url_vars, util_vars >>

Handle(w, callbacks) ==
    \/ Receive(w, callbacks)
    \/ Decode(w)
    \/ Verify(w)
    \/ CheckStatus(w)
    \/ CheckAmount(w)
    \/ ValidateFields(w)
    \/ ResolveTraveler(w)
    \/ GetPackage(w)
    \/ CreateTicket(w)
    \/ CreatePayment(w)

(***************************************************************************)
(* Spec: one synchronous worker handles the callbacks one after another.   *)
(* SpecConc: two workers handle callbacks for the same payment at once.    *)
(***************************************************************************)
Next == Handle("w1", Callbacks)

Spec == Init /\ [][Next]_vars

NextConc == \E w \in Workers : Handle(w, SamePaymentCallbacks)

SpecConc == Init /\ [][NextConc]_vars

(***************************************************************************)
(* SpecLive: Spec with the worker running the request it has received to   *)
(* its end.  requests.post is called with timeout=15, so the verification  *)
(* step ends with an answer or with a timeout; no other step waits.        *)
(* The arrival of a callback is left to the environment.                   *)
(***************************************************************************)
Proceed(w) ==
    \/ Decode(w)
    \/ Verify(w)
    \/ CheckStatus(w)
    \/ CheckAmount(w)
    \/ ValidateFields(w)
    \/ ResolveTraveler(w)
    \/ GetPackage(w)
    \/ CreateTicket(w)
    \/ CreatePayment(w)

SpecLive == Init /\ [][Next]_vars /\ WF_vars(Proceed("w1"))

(***************************************************************************)
(* SpecVerify: verify_payment applied to every answer of the endpoint,     *)
(* next to a worker handling callbacks of one payment.                     *)
(***************************************************************************)
InitVerify ==
    /\ store = [NoRows EXCEPT !.travelers = {SeedTraveler}]
    /\ seq = [traveler |-> 1, ticket |-> 0, payment |-> 0]
    /\ received = 0
    /\ production = FALSE
    /\ IdleWorkers
    /\ vp_call \in VerifyCalls
    /\ vp_result = NoReturn
    /\ NoIntentWork
    /\ NoUtilWork

NextVerify == VerifyPayment \/ Handle("w1", SamePaymentCallbacks)

SpecVerify == InitVerify /\ [][NextVerify]_vars


(***************************************************************************)
(* SpecUrl: fix_esewa_callback_url applied to every text of at most        *)
(* MaxUrlLen units over UrlAlphabet, and to None.                          *)
(***************************************************************************)
MaxUrlLen == 5

UrlAlphabet == {"?", "&", "a"}

UrlStrings ==
    { Str(text) : text \in UNION { [1..n -> UrlAlphabet] : n \in 0..MaxUrlLen } }
    \cup {NoneValue}

InitUrl ==
    /\ store = [NoRows EXCEPT !.travelers = {SeedTraveler}]
    /\ seq = [traveler |-> 1, ticket |-> 0, payment |-> 0]
    /\ received = 0
    /\ production = FALSE
    /\ IdleWorkers
    /\ vp_call = NoCall
    /\ vp_result = NoReturn
    /\ intent = Unset
    /\ booking_params = << >>
    /\ success_url = Unset
    /\ original_url \in UrlStrings
    /\ fixed_url = Unset
    /\ extracted = EmptyDict
    /\ NoUtilWork

NextUrl == FixUrl

SpecUrl == InitUrl /\ [][NextUrl]_vars

(***************************************************************************)
(* SpecIntent: a validated booking intent is encoded into the success_url, *)
(* the gateway redirects to it, get() normalises the URL and reads the     *)
(* query parameters.                                                       *)
(***************************************************************************)
InitIntent ==
    /\ store = [NoRows EXCEPT !.travelers = {SeedTraveler}]
    /\ seq = [traveler |-> 1, ticket |-> 0, payment |-> 0]
    /\ received = 0
    /\ production = FALSE
    /\ IdleWorkers
    /\ vp_call = NoCall
    /\ vp_result = NoReturn
    /\ intent \in { data \in IntentData : validate(data, store) }
    /\ booking_params = << >>
    /\ success_url = Unset
    /\ original_url = Unset
    /\ fixed_url = Unset
    /\ extracted = EmptyDict
    /\ NoUtilWork

NextIntent == InitiateEsewaPayment \/ GatewayRedirect \/ FixUrl \/ ExtractQuery

SpecIntent == InitIntent /\ [][NextIntent]_vars

(***************************************************************************)
(* SpecRoutes: the two routed endpoints that write bookings, side by side: *)
(* the success callback, here for callbacks that do not ask to skip the    *)
(* verification, and POST esewa/booking/complete/.                         *)
(***************************************************************************)
VerifyingCallbacks ==
    { BaseQuery(""), ExistingTravelerQuery(""), NameAndEmailQuery(""),
      MalformedUrlQuery("") }

NextRoutes == Handle("w1", VerifyingCallbacks) \/ EsewaBookingCompletePost

SpecRoutes == Init /\ [][NextRoutes]_vars

(***************************************************************************)
(* SpecRequest: create_payment_request applied to PaymentRequestCalls      *)
(***************************************************************************)
QuietSystem ==
    /\ store = [NoRows EXCEPT !.travelers = {SeedTraveler}]
    /\ seq = [traveler |-> 1, ticket |-> 0, payment |-> 0]
    /\ received = 0
    /\ production = FALSE
    /\ IdleWorkers
    /\ vp_call = NoCall
    /\ vp_result = NoReturn
    /\ NoIntentWork

InitRequest ==
    /\ QuietSystem
    /\ pr_call \in PaymentRequestCalls
    /\ pr_result = NoRequestResult
    /\ dp_input = NoDecodeInput
    /\ dp_result = NoDecodeResult
    /\ complete_response = NoCompleteResponse

NextRequest == CreatePaymentRequest

SpecRequest == InitRequest /\ [][NextRequest]_vars

(***************************************************************************)
(* SpecDecode: decode_payment_response applied to the base64 of every text *)
(* of at most MaxPayloadLen units over PayloadAlphabet, to base64 that is  *)
(* not UTF-8, to text that is not base64, to base64 with foreign           *)
(* characters in it and to None.                                           *)
(***************************************************************************)
MaxPayloadLen == 7

PayloadAlphabet == {"k", "j", "=", "&"}

DecodeInputs ==
    { b64encode_units(text) :
        text \in UNION { [1..n -> PayloadAlphabet] : n \in 0..MaxPayloadLen } }
    \cup { GarbageData, NotUtf8Data, AbsentData,
            b64encode_with_noise(<< "k", "=", "j" >>) }

InitDecode ==
    /\ QuietSystem
    /\ pr_call = NoRequestCall
    /\ pr_result = NoRequestResult
    /\ dp_input \in DecodeInputs
    /\ dp_result = NoDecodeResult
    /\ complete_response = NoCompleteResponse

NextDecode == DecodePaymentResponse

SpecDecode == InitDecode /\ [][NextDecode]_vars

(***************************************************************************)
(* Vocabulary of the properties                                            *)
(***************************************************************************)
CommitSteps == {"resolve_traveler", "get_package", "create_ticket", "create_payment"}

\* the worker is inside the atomic block, or has left it with a booking
InCommit(w) == pc[w] \in CommitSteps \cup {"Committed"}

\* rows of the store written by callback number c
RowsOf(c) ==
    [ travelers |-> { t \in store.travelers : t.cb = c },
      tickets   |-> { t \in store.tickets : t.cb = c },
      payments  |-> { p \in store.payments : p.cb = c } ]

PaymentsOf(u) == { p \in store.payments : p.esewa_transaction_uuid = u }

UUIDs == {"u1", "u2"}

\* the decoded payload of the callback carries a status and it is not COMPLETE
PayloadNotComplete(w) ==
    /\ "status" \in DOMAIN decoded_data[w]
    /\ decoded_data[w]["status"] # "COMPLETE"

\* the verification endpoint was called and reported COMPLETE
RemoteComplete(w) ==
    /\ remote[w].kind = "response"
    /\ remote[w].json
    /\ Get(remote[w].body, "status") = "COMPLETE"

\* both amounts are present and equal as integers
AmountsEqual(w) ==
    LET payment_amount == GET[w].payment_amount
        total_amount == Get(decoded_data[w], "total_amount")
    IN  /\ IsFloatText(payment_amount)
        /\ IsFloatText(total_amount)
        /\ int_float(payment_amount) = int_float(total_amount)

(***************************************************************************)
(* C1: for every transaction_uuid the store holds at most one Payment and  *)
(* at most one Ticket, whatever callbacks were handled.                    *)
(* The handler never looks a transaction_uuid up, so this is violated.     *)
(***************************************************************************)
C1_OnePaymentPerUuid ==
    \A u \in UUIDs :
        /\ Cardinality(PaymentsOf(u)) <= 1
        /\ Cardinality({ p.ticket : p \in PaymentsOf(u) }) <= 1

(***************************************************************************)
(* C2: a callback whose decoded payload status is not COMPLETE never       *)
(* enters the atomic block and writes no row.                              *)
(* Step 6 tests the verification result, not the payload, so this is       *)
(* violated.                                                               *)
(***************************************************************************)
C2_PayloadStatusGuardsCommit ==
    \A w \in Workers :
        PayloadNotComplete(w) =>
            /\ ~InCommit(w)
            /\ tx[w] = NoRows
            /\ RowsOf(cb[w]) = NoRows

(***************************************************************************)
(* C3: the atomic block is all-or-nothing.  A step of the block that ends  *)
(* in Rejected leaves the store as it was and no row of that callback in   *)
(* it; the step that ends in Committed adds exactly one Ticket, exactly    *)
(* one Payment and at most one Traveler; every other step of the block     *)
(* leaves the store alone.                                                 *)
(***************************************************************************)
C3_Step(w) ==
    (pc[w] \in CommitSteps /\ pc'[w] # pc[w]) =>
        IF pc'[w] = "Committed"
        THEN /\ store.travelers \subseteq store'.travelers
             /\ store.tickets \subseteq store'.tickets
             /\ store.payments \subseteq store'.payments
             /\ Cardinality(store'.tickets \ store.tickets) = 1
             /\ Cardinality(store'.payments \ store.payments) = 1
             /\ Cardinality(store'.travelers \ store.travelers) <= 1
        ELSE /\ store' = store
             /\ pc'[w] = "Rejected" =>
                    /\ tx'[w] = NoRows
                    /\ \A t \in store'.travelers : t.cb # cb[w]
                    /\ \A t \in store'.tickets : t.cb # cb[w]
                    /\ \A p \in store'.payments : p.cb # cb[w]

C3_AllOrNothing == [][\A w \in Workers : C3_Step(w)]_vars

\* a callback failed inside the atomic block after it had inserted a Traveler,
\* and that Traveler is not in the store
C3_Witness ==
    \E w \in Workers :
        /\ pc[w] = "Rejected"
        /\ result[w].error = "Booking creation failure"
        /\ traveler[w] # 0
        /\ GET[w].traveler_id = ""
        /\ \A t \in store.travelers : t.traveler_id # traveler[w]

(***************************************************************************)
(* C4: two concurrently handled callbacks for the same payment leave at    *)
(* most one Traveler with that email or phone and at most one Ticket and   *)
(* one Payment for the transaction_uuid.                                   *)
(* Neither a lock nor a lookup by transaction_uuid exists (see C1), so     *)
(* this is violated.                                                       *)
(***************************************************************************)
C4_SerializableCommit ==
    (pc["w1"] = "Committed" /\ pc["w2"] = "Committed") =>
        /\ Cardinality({ t \in store.travelers :
                           t.email = "e1" \/ t.phone_number = "p1" }) <= 1
        /\ \A u \in UUIDs :
            /\ Cardinality({ p \in store.payments :
                               p.esewa_transaction_uuid = u }) <= 1
            /\ Cardinality({ t \in store.tickets : \E p \in store.payments :
                               /\ p.esewa_transaction_uuid = u
                               /\ p.ticket = t.ticket_id }) <= 1

(***************************************************************************)
(* C5: under a production configuration the atomic block is entered only   *)
(* after the verification endpoint was called and reported COMPLETE.       *)
(* skip_verification=true is honoured whatever the configuration, so this  *)
(* is violated.                                                            *)
(***************************************************************************)
C5_NoBypassInProduction ==
    production => \A w \in Workers : InCommit(w) => RemoteComplete(w)

(***************************************************************************)
(* C6: the atomic block is entered only when payment_amount and the        *)
(* payload's total_amount are both present and equal as integers.          *)
(* Step 7 is skipped when total_amount is absent, so this is violated.     *)
(***************************************************************************)
C6_AmountGuardsCommit ==
    \A w \in Workers : InCommit(w) => AmountsEqual(w)

(***************************************************************************)
(* C7: a callback whose transaction_uuid was committed by an earlier       *)
(* callback is answered with that earlier booking: the same ticket id,     *)
(* payment id and traveler id.                                             *)
(* Every callback creates a booking of its own, so this is violated.       *)
(***************************************************************************)
C7_ReplayAnsweredWithOriginal ==
    \A w \in Workers :
        pc[w] = "Committed" =>
            \A p \in store.payments :
                ( /\ p.esewa_transaction_uuid = result[w].transaction_uuid
                  /\ p.esewa_transaction_uuid # None
                  /\ p.cb < cb[w] )
                => /\ result[w].payment_id = p.payment_id
                   /\ result[w].ticket_id = p.ticket
                   /\ result[w].traveler_id = p.traveler

(***************************************************************************)
(* C8: the handler walks AwaitingCallback, DataDecoded,                    *)
(* TransactionVerified, FieldsValidated, Committed in this order: the      *)
(* endpoint is contacted only after a successful decode, field validation  *)
(* runs only after verification and the amount check passed, rows are      *)
(* written only after field validation passed, and a rejected callback     *)
(* has written nothing.                                                    *)
(* Field validation is reached without the amount check having run (C6)    *)
(* and, under a production configuration, without the endpoint having      *)
(* been contacted (C5), so this is violated.                               *)
(***************************************************************************)
DecodedOk(w) ==
    /\ GET[w].data.kind = "b64"
    /\ decoded_data[w] = decode_payment_response(GET[w].data)
    /\ "error" \notin DOMAIN decoded_data[w]

\* verification passed: the endpoint reported COMPLETE, or the bypass was
\* used outside production
VerificationPassed(w) ==
    \/ RemoteComplete(w)
    \/ /\ ~production
       /\ remote[w] = NotCalled
       /\ lower(GET[w].skip_verification) = "true"

C8_StateOrder ==
    \A w \in Workers :
        /\ remote[w] # NotCalled => DecodedOk(w)
        /\ (pc[w] = "validate_fields" \/ InCommit(w)) =>
               /\ DecodedOk(w)
               /\ VerificationPassed(w)
               /\ amount_checked[w]
        /\ (InCommit(w) \/ tx[w] # NoRows) => missing_fields(GET[w]) = << >>
        /\ pc[w] \in {"Rejected", "Exception"} =>
               /\ tx[w] = NoRows
               /\ RowsOf(cb[w]) = NoRows

(***************************************************************************)
(* C9 as stated: verify_payment returns success=True exactly when the      *)
(* response JSON has status COMPLETE, and get() rejects every              *)
(* verification result whose status is not COMPLETE with 'Transaction not  *)
(* complete'.  The first half fails for an error response (4xx, 5xx)       *)
(* whose JSON body says COMPLETE: raise_for_status() makes it a failure.   *)
(***************************************************************************)
ViewRejectsIncomplete(w) ==
    LET reported == Get(verification_result[w], "status")
        passed == pc[w] \in {"check_amount", "validate_fields"} \/ InCommit(w)
    IN  /\ passed => reported = "COMPLETE"
        /\ (pc[w] = "Rejected" /\ verification_result[w] # EmptyDict) =>
               \/ reported = "COMPLETE"
               \/ /\ result[w].error = "Transaction not complete"
                  /\ result[w].transaction_status = reported
                  /\ RowsOf(cb[w]) = NoRows
                  /\ tx[w] = NoRows
        /\ result[w].error = "Transaction not complete" =>
               /\ reported # "COMPLETE"
               /\ pc[w] = "Rejected"

C9_SuccessIffJsonComplete ==
    /\ vp_result # NoReturn =>
           ( (vp_result.returned /\ vp_result.success) <=>
             ( /\ vp_call.response.json
               /\ Get(vp_call.response.body, "status") = "COMPLETE" ) )
    /\ \A w \in Workers : ViewRejectsIncomplete(w)

(***************************************************************************)
(* C9 amended: verify_payment returns success=True exactly when the        *)
(* endpoint answered with a non-error HTTP status and a JSON body whose    *)
(* status is COMPLETE; get() rejects every verification result whose       *)
(* status is not COMPLETE with 'Transaction not complete', reporting the   *)
(* received status and writing no row.                                     *)
(***************************************************************************)
C9_VerifiedIffComplete ==
    /\ vp_result # NoReturn =>
           ( (vp_result.returned /\ vp_result.success) <=>
             ( /\ vp_call.response.kind = "response"
               /\ vp_call.response.http < 400
               /\ vp_call.response.json
               /\ Get(vp_call.response.body, "status") = "COMPLETE" ) )
    /\ \A w \in Workers : ViewRejectsIncomplete(w)

\* verify_payment has returned success and a callback was rejected as not complete
C9_Witness ==
    /\ vp_result.returned
    /\ vp_result.success
    /\ \E w \in Workers :
           /\ pc[w] = "Rejected"
           /\ result[w].error = "Transaction not complete"
           /\ result[w].transaction_status = "PENDING"

(***************************************************************************)
(* C10: a timeout, an error HTTP status and a non-JSON body each end the   *)
(* callback in Rejected with a reason of its own, different from the       *)
(* reason of a non-COMPLETE status; no answer with an error HTTP status    *)
(* lets the callback go on.                                                *)
(* Only 404 is tested: any other error status with a JSON body is read as  *)
(* a verification result, so this is violated.                             *)
(***************************************************************************)
FailureMode(response) ==
    IF response.kind = "timeout" THEN "network"
    ELSE IF response.http >= 400 THEN "http_error"
    ELSE IF ~response.json THEN "not_json"
    ELSE "answered"

\* the failure mode a rejection's reason names
ReasonMode(r) ==
    IF r.error = "Verification request failed" THEN "network"
    ELSE IF r.error = "eSewa verification failed" /\ r.api_status_code >= 400
    THEN "http_error"
    ELSE IF r.error = "eSewa verification failed" THEN "not_json"
    ELSE IF r.error = "Transaction not complete" THEN "not_complete"
    ELSE "other"

C10_DistinctVerificationFailures ==
    \A w \in Workers :
        (remote[w] # NotCalled /\ FailureMode(remote[w]) # "answered") =>
            /\ pc[w] = "Rejected"
            /\ ReasonMode(result[w]) = FailureMode(remote[w])

(***************************************************************************)
(* C11: whatever a callback carries, get() ends with a structured result,  *)
(* Committed or Rejected with a reason; no exception leaves the handler.   *)
(* The int(float(...)) conversions of step 7 stand outside every try, so   *)
(* a non-numeric payment_amount or total_amount violates this.             *)
(***************************************************************************)
C11_NoExceptionEscapes ==
    \A w \in Workers :
        /\ pc[w] # "Exception"
        /\ result[w].kind # "Exception"

\* the kind of failure a step of worker w that fails ends in, by the step
\* that failed
FailureKind(w) ==
    CASE pc[w] \in Terminal \cup {"idle", "decode"} -> "decode"
      [] pc[w] = "verify" ->
             IF remote'[w].kind = "timeout" THEN "network" ELSE "protocol"
      [] pc[w] = "check_status" -> "not_complete"
      [] pc[w] = "check_amount" -> "amount_mismatch"
      [] pc[w] \in {"validate_fields", "get_package"} -> "intent_fields"
      [] pc[w] = "resolve_traveler" ->
             IF GET[w].traveler_id # "" THEN "intent_fields" ELSE "persistence"
      [] OTHER -> "persistence"

\* the reason identifiers of get(), each filed under the one kind of failure
\* it may stand for if identifiers are distinct per kind
ReasonsOf ==
    [ decode |-> {"Missing eSewa payment data", "Invalid Base64 data"},
      network |-> {"Verification request failed"},
      protocol |-> {"eSewa verification failed"},
      not_complete |-> {"Transaction not complete"},
      amount_mismatch |-> {"Amount mismatch"},
      intent_fields |-> {"Missing required booking information",
                         "Traveler creation failure"},
      persistence |-> {"Booking creation failure"} ]

(***************************************************************************)
(* C12: every kind of failure of get() is answered with a reason           *)
(* identifier (the 'error' value) that no other kind of failure uses.      *)
(* Stated on the steps: a step that ends in Rejected carries an identifier *)
(* of its own kind.  The except clauses answer an unknown package and a    *)
(* non-integer id with the identifier of a persistence failure, so this is *)
(* violated.  The other half of the claim, no 500 without a reason, is     *)
(* what C11_NoExceptionEscapes states.                                     *)
(***************************************************************************)
C12_DistinctReasonPerKind ==
    [][ \A w \in Workers :
          (pc'[w] = "Rejected" /\ (pc[w] # pc'[w] \/ cb'[w] # cb[w])) =>
              result'[w].error \in ReasonsOf[FailureKind(w)] ]_vars

\* the travelers worker w can see that share the email or the phone number
\* of its callback
ExistingMatches(w) ==
    { t \in Visible(w).travelers :
        t.email = GET[w].traveler_email \/ t.phone_number = GET[w].traveler_phone }

C13_Step(w) ==
    /\ (pc[w] = "resolve_traveler" /\ pc'[w] = "get_package"
            /\ GET[w].traveler_id = "") =>
           IF ExistingMatches(w) # {}
           THEN /\ traveler'[w] \in { t.traveler_id : t \in ExistingMatches(w) }
                /\ tx'[w].travelers = tx[w].travelers
                /\ store'.travelers = store.travelers
           ELSE /\ traveler'[w] \notin { t.traveler_id : t \in Visible(w).travelers }
                /\ \E t \in tx'[w].travelers :
                       /\ t.traveler_id = traveler'[w]
                       /\ t.email = GET[w].traveler_email
                       /\ t.phone_number = GET[w].traveler_phone
                       /\ tx'[w].travelers = tx[w].travelers \cup {t}
    /\ (pc[w] = "create_payment" /\ pc'[w] = "Committed"
            /\ GET[w].traveler_id = "") =>
           /\ \A t \in store'.tickets \ store.tickets : t.traveler = traveler[w]
           /\ \A p \in store'.payments \ store.payments : p.traveler = traveler[w]
           /\ store'.tickets # store.tickets
           /\ store'.payments # store.payments
           /\ store'.travelers = store.travelers \cup tx[w].travelers
           /\ (traveler[w] \in { t.traveler_id : t \in store.travelers }) =>
                  Cardinality(store'.travelers) = Cardinality(store.travelers)

(***************************************************************************)
(* C13: a callback without traveler_id whose email or phone number is that *)
(* of an existing Traveler is booked on an existing matching Traveler and  *)
(* adds no Traveler; a Traveler is created only when none matches on email *)
(* or phone, and the Ticket and the Payment are linked to the Traveler     *)
(* that was found or created.                                              *)
(***************************************************************************)
C13_ReuseMatchingTraveler == [][\A w \in Workers : C13_Step(w)]_vars

\* a booking committed on the seeded traveler, matched by phone number alone
C13_Witness ==
    \E w \in Workers :
        /\ pc[w] = "Committed"
        /\ GET[w].traveler_id = ""
        /\ GET[w].traveler_phone = SeedTraveler.phone_number
        /\ GET[w].traveler_email # SeedTraveler.email
        /\ result[w].traveler_id = SeedTraveler.traveler_id
        /\ store.travelers = {SeedTraveler}
        /\ \E t \in store.tickets :
               t.cb = cb[w] /\ t.traveler = SeedTraveler.traveler_id

\* the callback of worker w is of the existing-traveler variant
ExistingTravelerVariant(w) ==
    /\ GET[w].traveler_id = "1"
    /\ \E t \in store.travelers : t.traveler_id = 1
    /\ GET[w].traveler_name = "" /\ GET[w].traveler_email = ""
    /\ GET[w].traveler_phone = "" /\ GET[w].traveler_address = ""
    /\ GET[w].package_id = "1"
    /\ GET[w].payment_amount = "100"

(***************************************************************************)
(* C14: a verified COMPLETE callback of the existing-traveler variant      *)
(* passes the field validation: it is never answered with the missing-     *)
(* fields rejection, and once its verification and amount check passed it  *)
(* goes on into the atomic block.                                          *)
(* Step 8 demands the four traveler details whatever traveler_id is, so    *)
(* this is violated.                                                       *)
(***************************************************************************)
C14_ExistingTravelerPassesValidation ==
    \A w \in Workers :
        ExistingTravelerVariant(w) =>
            /\ result[w].error # "Missing required booking information"
            /\ result[w].missing_fields = << >>

\* the callback of worker w carries a traveler_id and all four traveler details
BothTravelerForms(w) ==
    /\ GET[w].traveler_id # ""
    /\ GET[w].traveler_name # "" /\ GET[w].traveler_email # ""
    /\ GET[w].traveler_phone # "" /\ GET[w].traveler_address # ""

\* the callback of worker w carries no traveler_id and not all four details
NeitherTravelerForm(w) ==
    /\ GET[w].traveler_id = ""
    /\ \/ GET[w].traveler_name = "" \/ GET[w].traveler_email = ""
       \/ GET[w].traveler_phone = "" \/ GET[w].traveler_address = ""

(***************************************************************************)
(* C15: a callback that carries both a traveler_id and all four traveler   *)
(* details, like one that carries neither, is rejected: it never ends      *)
(* Committed and leaves no row in the store.                               *)
(* get() has no test for the first combination and books it on the         *)
(* traveler_id, so this is violated.                                       *)
(***************************************************************************)
C15_ExactlyOneTravelerForm ==
    \A w \in Workers :
        (BothTravelerForms(w) \/ NeitherTravelerForm(w)) =>
            /\ pc[w] # "Committed"
            /\ pc[w] \in Terminal => result[w].kind = "Rejected"
            /\ RowsOf(cb[w]) = NoRows

\* position of a field in the order the claim names them
FieldRank ==
    ("traveler_name" :> 1) @@ ("traveler_email" :> 2) @@ ("traveler_phone" :> 3) @@
    ("traveler_address" :> 4) @@ ("package_id" :> 5) @@ ("payment_amount" :> 6)

\* the required fields that are absent or empty in the callback of worker w
AbsentFields(w) == { f \in DOMAIN FieldRank : GET[w][f] \in {"", None} }

C16_Step(w) ==
    (pc[w] = "validate_fields" /\ pc'[w] # pc[w] /\ GET[w].traveler_id = "") =>
        LET listed == result'[w].missing_fields
        IN  /\ pc'[w] = "Rejected" <=> AbsentFields(w) # {}
            /\ pc'[w] # "Rejected" =>
                   /\ pc'[w] = "resolve_traveler"
                   /\ listed = << >>
            /\ pc'[w] = "Rejected" =>
                   /\ result'[w].error = "Missing required booking information"
                   /\ { listed[i] : i \in 1..Len(listed) } = AbsentFields(w)
                   /\ \A i, j \in 1..Len(listed) :
                          i < j => FieldRank[listed[i]] < FieldRank[listed[j]]
                   /\ store' = store
            /\ (AbsentFields(w) = {"traveler_phone", "traveler_address"}) =>
                   listed = << "traveler_phone", "traveler_address" >>

(***************************************************************************)
(* C16: for a callback without traveler_id that reached the field          *)
(* validation, the rejection lists exactly the required fields that are    *)
(* absent or empty, in the order traveler_name, traveler_email,            *)
(* traveler_phone, traveler_address, package_id, payment_amount, and the   *)
(* callback is rejected if and only if that list is not empty; with only   *)
(* the name and the email given the list is traveler_phone,                *)
(* traveler_address.                                                       *)
(***************************************************************************)
C16_MissingFieldsExact == [][\A w \in Workers : C16_Step(w)]_vars

\* the rejection of a callback that carries the name and the email only
C16_Witness ==
    \E w \in Workers :
        /\ pc[w] = "Rejected"
        /\ GET[w].traveler_id = ""
        /\ GET[w].traveler_name # "" /\ GET[w].traveler_email # ""
        /\ GET[w].traveler_phone = "" /\ GET[w].traveler_address = ""
        /\ result[w].missing_fields = << "traveler_phone", "traveler_address" >>

\* the text is the decimal numeral of the integer n
IsIntegerText(v, n) ==
    /\ v.type = "str"
    /\ Len(v.text) = 1
    /\ IsIntText(v.text[1])
    /\ int_text[v.text[1]] = n

\* the text is a numeral of the amount h, given in hundredths
IsAmountText(v, h) ==
    /\ v.type = "str"
    /\ Len(v.text) = 1
    /\ IsFloatText(v.text[1])
    /\ float_hundredths[v.text[1]] = h

\* what get() read agrees with the intent on everything but the amount
SameIntentFields ==
    /\ extracted.booking_reference = Str(booking_params[1][2])
    /\ extracted.data = Str(<< "D" >>)
    /\ IsIntegerText(extracted.package_id, intent.package_id.value)
    /\ IF Truthy(intent.traveler_id)
       THEN IsIntegerText(extracted.traveler_id, intent.traveler_id.value)
       ELSE /\ extracted.traveler_id = Str(<< >>)
            /\ \A i \in 1..Len(TravelerDetails) :
                   extracted[TravelerDetails[i]] = intent[TravelerDetails[i]]

(***************************************************************************)
(* C17, as claimed: the fields get() reads from the callback URL of a      *)
(* valid intent (booking_reference, traveler_id or the four traveler       *)
(* details, package_id, payment_amount) equal the fields of the intent,    *)
(* for amounts with up to two decimals.                                    *)
(* initiate_esewa_payment writes str(int(float(amount))), so an amount     *)
(* with decimals comes back without them.                                  *)
(***************************************************************************)
C17_RoundTrip ==
    extracted # EmptyDict =>
        /\ SameIntentFields
        /\ IsAmountText(extracted.payment_amount, intent.payment_amount)

(***************************************************************************)
(* C17, amended: the fields get() reads from the callback URL of a valid   *)
(* intent equal the fields of the intent, except that payment_amount is    *)
(* the intent's amount truncated to a whole number.                        *)
(***************************************************************************)
C17_RoundTripWholeAmount ==
    extracted # EmptyDict =>
        /\ SameIntentFields
        /\ IsAmountText(extracted.payment_amount,
                        (intent.payment_amount \div 100) * 100)

\* a new-traveler intent with an amount with decimals and an address holding
\* '?', '&' and '=', read back from a callback URL that had to be fixed
C17_Witness ==
    /\ extracted # EmptyDict
    /\ original_url # fixed_url
    /\ ~Truthy(intent.traveler_id)
    /\ intent.payment_amount = 10090
    /\ intent.traveler_address = Str(<< "A", "?", "B", "&", "C", "=", "D" >>)
    /\ extracted.traveler_address = intent.traveler_address
    /\ extracted.payment_amount = Str(<< "100" >>)

\* the parameters of the success_url query, as <<name, value>> pairs
SuccessQuery == parse_qsl(query_of(success_url.text))

\* the success_url query has a parameter of that name
Emitted(name) == \E i \in 1..Len(SuccessQuery) : SuccessQuery[i][1] = << name >>

\* booking_reference, package_id and payment_amount are there, and no
\* parameter is empty or repeated
MandatoryAndNonEmpty ==
    /\ Emitted("booking_reference")
    /\ Emitted("package_id")
    /\ Emitted("payment_amount")
    /\ \A i \in 1..Len(SuccessQuery) : SuccessQuery[i][2] # << >>
    /\ \A i, j \in 1..Len(SuccessQuery) :
           SuccessQuery[i][1] = SuccessQuery[j][1] => i = j

(***************************************************************************)
(* C18, as claimed: the success_url query always has booking_reference,    *)
(* package_id and payment_amount; it has traveler_id, traveler_name,       *)
(* traveler_email, traveler_phone or traveler_address if and only if that  *)
(* field of the intent is not empty; no parameter is empty; and with a     *)
(* traveler_id none of the four traveler details is emitted.               *)
(* An intent with a traveler_id and some of the details is valid, and its  *)
(* details are not emitted although they are not empty.                    *)
(***************************************************************************)
C18_OptionalIffNonEmpty ==
    success_url # Unset =>
        /\ MandatoryAndNonEmpty
        /\ Emitted("traveler_id") <=> Truthy(intent.traveler_id)
        /\ \A i \in 1..Len(TravelerDetails) :
               Emitted(TravelerDetails[i]) <=> Truthy(intent[TravelerDetails[i]])
        /\ Emitted("traveler_id") =>
               \A i \in 1..Len(TravelerDetails) : ~Emitted(TravelerDetails[i])

(***************************************************************************)
(* C18, amended: the success_url query always has booking_reference,       *)
(* package_id and payment_amount; it has traveler_id if and only if the    *)
(* intent's traveler_id is neither null nor zero, and one of the four      *)
(* traveler details if and only if that field of the intent is not empty   *)
(* and the intent has no such traveler_id; no parameter is empty.          *)
(***************************************************************************)
C18_OptionalIffNonEmptyAndNoId ==
    success_url # Unset =>
        /\ MandatoryAndNonEmpty
        /\ Emitted("traveler_id") <=> Truthy(intent.traveler_id)
        /\ \A i \in 1..Len(TravelerDetails) :
               Emitted(TravelerDetails[i]) <=>
                   /\ Truthy(intent[TravelerDetails[i]])
                   /\ ~Truthy(intent.traveler_id)

\* the success_url of an intent with a traveler_id that also has a name
C18_Witness ==
    /\ success_url # Unset
    /\ Truthy(intent.traveler_id)
    /\ Truthy(intent.traveler_name)
    /\ Emitted("traveler_id")
    /\ ~Emitted("traveler_name")

RequestDone == pr_result.returned \/ pr_result.raised

\* both amounts are numbers and the truncated total differs from
\* amount + tax + service charge + delivery charge, the three charges being 0
ArithmeticMismatch ==
    /\ IsFloatText(pr_call.amount)
    /\ IsFloatText(pr_call.total_amount)
    /\ int_float(pr_call.total_amount) # int_float(pr_call.amount) + 0 + 0 + 0

\* C21: whenever the supplied total_amount, truncated to an integer, differs
\* from amount + tax + service charge + delivery charge, the call of
\* create_payment_request fails with an error and returns no payment request.
C21_MismatchIsFatal ==
    (RequestDone /\ ArithmeticMismatch) =>
        (pr_result.raised /\ ~pr_result.returned)

\* n is the number of hundredths h truncated toward zero to whole units
TruncatedTowardZero(h, n) ==
    IF h >= 0
    THEN 100 * n <= h /\ h < 100 * n + 100
    ELSE 100 * n - 100 < h /\ h <= 100 * n

\* C22: every returned payment request has amount equal to the input amount
\* truncated toward zero, the tax, service and delivery charges equal to 0
\* and total_amount equal to the sum of amount and the three charges.
C22_TruncatedAmountAndTotal ==
    pr_result.returned =>
        LET d == pr_result.payment_data
        IN  /\ TruncatedTowardZero(float_hundredths[pr_call.amount],
                                   int_text[d.amount])
            /\ d.tax_amount = "0"
            /\ d.product_service_charge = "0"
            /\ d.product_delivery_charge = "0"
            /\ int_text[d.total_amount] =
                   int_text[d.amount] + int_text[d.tax_amount]
                       + int_text[d.product_service_charge]
                       + int_text[d.product_delivery_charge]

\* a request was returned for an amount with a fraction below zero
C22_Witness ==
    /\ pr_result.returned
    /\ pr_call.amount = "-100.9"
    /\ pr_result.payment_data.amount = "-100"
    /\ pr_result.payment_data.total_amount = "-100"

\* C23: in every returned payment request the signature is generate_signature
\* of 'total_amount=<T>,transaction_uuid=<U>,product_code=<P>', in that
\* order, T, U and P being the total_amount, transaction_uuid and
\* product_code of that request, and signed_field_names names the three
\* fields in the same order.
C23_SignatureOverOrderedFields ==
    pr_result.returned =>
        LET d == pr_result.payment_data
        IN  /\ d.signature =
                   generate_signature(
                       << "total_amount", "=", d.total_amount, ",",
                          "transaction_uuid", "=", d.transaction_uuid, ",",
                          "product_code", "=", d.product_code >>)
            /\ d.signed_field_names = "total_amount,transaction_uuid,product_code"

\* a request was returned whose transaction_uuid was generated by the call
C23_Witness ==
    /\ pr_result.returned
    /\ pr_call.transaction_uuid = None
    /\ pr_result.payment_data.transaction_uuid = "g2"
    /\ pr_result.payment_data.signature.message[7] = "g2"

\* a scheme of http or https, '://' and a host after it
WellFormedAbsolute(url) ==
    /\ Truthy(url)
    /\ \/ startswith(url.text, << "http", "://" >>) /\ Len(url.text) > 2
       \/ startswith(url.text, << "http", "s", "://" >>) /\ Len(url.text) > 3

\* C24: create_payment_request returns a request only when success_url and
\* failure_url are both well-formed absolute URLs; when either is missing,
\* empty or not such a URL the call raises and returns nothing.
C24_OnlyWellFormedRedirectUrls ==
    /\ pr_result.returned =>
           /\ WellFormedAbsolute(pr_call.success_url)
           /\ WellFormedAbsolute(pr_call.failure_url)
    /\ ( /\ RequestDone
         /\ \/ ~WellFormedAbsolute(pr_call.success_url)
            \/ ~WellFormedAbsolute(pr_call.failure_url) )
       => (pr_result.raised /\ ~pr_result.returned)

(***************************************************************************)
(* Properties of EsewaPayment.decode_payment_response                      *)
(***************************************************************************)
\* the parts of a text between its '&' units, as pairs of first and last
\* position (an empty part has last = first - 1)
PartsOf(text) ==
    { p \in (1..Len(text) + 1) \X (0..Len(text)) :
        /\ p[1] <= p[2] + 1
        /\ p[1] = 1 \/ text[p[1] - 1] = "&"
        /\ p[2] = Len(text) \/ text[p[2] + 1] = "&"
        /\ \A i \in p[1]..p[2] : text[i] # "&" }

HasEquals(text, p) == \E i \in p[1]..p[2] : text[i] = "="

FirstEquals(text, p) ==
    CHOOSE i \in p[1]..p[2] :
        text[i] = "=" /\ \A j \in p[1]..(i - 1) : text[j] # "="

KeyOf(text, p) == SubSeq(text, p[1], FirstEquals(text, p) - 1)

ValueOf(text, p) == SubSeq(text, FirstEquals(text, p) + 1, p[2])

\* '&'-joined key=value pairs with distinct keys
PairsWithDistinctKeys(text) ==
    /\ \A p \in PartsOf(text) : HasEquals(text, p)
    /\ \A p, q \in PartsOf(text) :
           p # q => KeyOf(text, p) # KeyOf(text, q)

\* C26: for the base64 of '&'-joined key=value pairs with distinct keys,
\* decode_payment_response returns the mapping that sends each key to the
\* text after the first '=' of its pair and that has no other key.
C26_DecodesEachPair ==
    ( /\ dp_result.returned
      /\ dp_input.kind = "b64_text"
      /\ PairsWithDistinctKeys(dp_input.text) ) =>
        LET text == dp_input.text
            params == dp_result.params
        IN  /\ DOMAIN params = { KeyOf(text, p) : p \in PartsOf(text) }
            /\ \A p \in PartsOf(text) :
                   params[KeyOf(text, p)] = ValueOf(text, p)

\* 'k==&j=k' has been decoded: k is sent to '=', j to k
C26_Witness ==
    /\ dp_result.returned
    /\ dp_input = b64encode_units(<< "k", "=", "=", "&", "j", "=", "k" >>)
    /\ PairsWithDistinctKeys(dp_input.text)
    /\ DOMAIN dp_result.params = { << "k" >>, << "j" >> }
    /\ dp_result.params[<< "k" >>] = << "=" >>

\* the data parameter is not valid base64, is not UTF-8 once decoded, or has
\* a segment without '='
MalformedData(data) ==
    \/ data.kind \in {"garbage", "b64_noise", "not_utf8"}
    \/ /\ data.kind = "b64"
       /\ \E i \in 1..Len(data.text) : Len(data.text[i]) # 2

\* C25: decode_payment_response returns a result carrying 'error' for every
\* input that is not valid base64, not valid UTF-8 or has a segment without
\* '=', and get() answers each such callback with the decode error without
\* contacting the verification endpoint.
C25_MalformedDataIsDecodeError ==
    \A w \in Workers :
        (pc[w] \notin {"idle", "decode"} /\ MalformedData(GET[w].data)) =>
            /\ "error" \in DOMAIN decode_payment_response(GET[w].data)
            /\ pc[w] = "Rejected"
            /\ result[w].error = "Invalid Base64 data"
            /\ remote[w] = NotCalled

(***************************************************************************)
(* C27: handling a callback always terminates.  With the verification call *)
(* answering or timing out, every execution of get() that has taken up a   *)
(* callback reaches the outcome Committed or Rejected, and a timeout of    *)
(* the verification call is answered with Rejected 'Verification request   *)
(* failed' with no row created.                                            *)
(***************************************************************************)
TimeoutIsRejected ==
    \A w \in Workers :
        remote[w].kind = "timeout" =>
            /\ pc[w] = "Rejected"
            /\ result[w].error = "Verification request failed"
            /\ tx[w] = NoRows
            /\ RowsOf(cb[w]) = NoRows

C27_CallbackTerminates ==
    /\ []TimeoutIsRejected
    /\ \A w \in Workers :
           (pc[w] = "decode") ~> (pc[w] \in {"Committed", "Rejected"})

\* the fields of a decoded payload that the gateway signs
SignedFieldsOf(d) ==
    << Get(d, "transaction_code"), Get(d, "status"), Get(d, "total_amount"),
       Get(d, "transaction_uuid"), Get(d, "product_code") >>

\* the signature of the decoded payload is the one generate_signature gives
\* for its signed fields under secret_key: "s1" stands for the signature of
\* the signed fields of BasePayload and of no other fields
SignatureValid(d) ==
    /\ Get(d, "signature") = BasePayload.signature
    /\ SignedFieldsOf(d) = << BasePayload.transaction_code, BasePayload.status,
                              BasePayload.total_amount,
                              BasePayload.transaction_uuid,
                              BasePayload.product_code >>

\* C28: get() validates the inbound signature before booking: a callback is
\* in the commit step, or has written a row, only if the signature of its
\* decoded payload is valid for the decoded signed fields; a callback whose
\* signature is absent or does not match creates no records.
C28_SignatureGuardsCommit ==
    \A w \in Workers :
        ( \/ InCommit(w)
          \/ tx[w] # NoRows
          \/ pc[w] # "idle" /\ RowsOf(cb[w]) # NoRows ) =>
            SignatureValid(decoded_data[w])

(***************************************************************************)
(* C29: the callback workflow is insert-only on the store.  Every step of  *)
(* get() leaves every Traveler, Ticket and Payment row of the store in     *)
(* place and unchanged, and a row it adds has an id no row had before;     *)
(* this holds whether the callback ends Committed or Rejected.  The        *)
(* Package rows are only read (Package.objects.get) and are a fixed set.   *)
(***************************************************************************)
C29_Step ==
    /\ store.travelers \subseteq store'.travelers
    /\ store.tickets \subseteq store'.tickets
    /\ store.payments \subseteq store'.payments
    /\ \A t \in store'.travelers \ store.travelers :
           \A u \in store.travelers : u.traveler_id # t.traveler_id
    /\ \A t \in store'.tickets \ store.tickets :
           \A u \in store.tickets : u.ticket_id # t.ticket_id
    /\ \A p \in store'.payments \ store.payments :
           \A q \in store.payments : q.payment_id # p.payment_id

C29_InsertOnly == [][C29_Step]_vars

\* the second callback ended Committed and the rows of the first are there
C29_Witness ==
    /\ pc["w1"] = "Committed"
    /\ cb["w1"] = 2
    /\ RowsOf(1).payments # {}
    /\ RowsOf(1).tickets # {}
    /\ RowsOf(2).payments # {}

\* C30: every Payment created by get() carries full audit fields: its
\* esewa_transaction_uuid is not null, its uuid, transaction code, status
\* and signature are those of the decoded payload of the same callback and
\* its payment_method is 'esewa'; no callback whose decoded payload lacks a
\* transaction_uuid ends Committed.
C30_FullAuditFields ==
    \A w \in Workers :
        pc[w] = "Committed" =>
            /\ Get(decoded_data[w], "transaction_uuid") # None
            /\ RowsOf(cb[w]).payments # {}
            /\ \A p \in RowsOf(cb[w]).payments :
                   /\ p.esewa_transaction_uuid # None
                   /\ p.esewa_transaction_uuid =
                          Get(decoded_data[w], "transaction_uuid")
                   /\ p.esewa_transaction_code =
                          Get(decoded_data[w], "transaction_code")
                   /\ p.esewa_status = Get(decoded_data[w], "status")
                   /\ p.esewa_signature = Get(decoded_data[w], "signature")
                   /\ p.payment_method = "esewa"

\* C31: after any sequence of callbacks every Payment of the store refers to
\* a Ticket written by the same callback, with the same traveler and the
\* same package, and every Ticket has exactly one Payment.
C31_TicketAndPaymentPaired ==
    /\ \A p \in store.payments :
           \E t \in store.tickets :
               /\ t.ticket_id = p.ticket
               /\ t.cb = p.cb
               /\ t.traveler = p.traveler
               /\ t.package = p.package
    /\ \A t \in store.tickets :
           Cardinality({ p \in store.payments : p.ticket = t.ticket_id }) = 1

\* two callbacks have ended Committed, the second after a callback that was
\* rolled back or not: two tickets, each with its payment
C31_Witness ==
    /\ pc["w1"] = "Committed"
    /\ Cardinality(store.tickets) = 2
    /\ Cardinality(store.payments) = 2
    /\ \E p, q \in store.payments : p.ticket # q.ticket /\ p.cb # q.cb

\* the Python str of a text of at most one unit
one_unit_str(v) ==
    IF v.type = "NoneType" THEN None
    ELSE IF v.text = << >> THEN ""
    ELSE v.text[1]

(***************************************************************************)
(* C32: for every intent initiate_esewa_payment accepts, the signed        *)
(* payment request is returned, the payment_amount put into the            *)
(* success_url equals the total_amount of that request, both being the     *)
(* intent's amount truncated to a whole number, and the payment_amount     *)
(* get() reads from the callback URL passes the amount check of step 7     *)
(* against that total_amount.                                              *)
(***************************************************************************)
C32_UrlAmountIsRequestTotal ==
    /\ success_url # Unset =>
           /\ pr_result.returned
           /\ booking_params[3][1] = << "payment_amount" >>
           /\ booking_params[3][2] = << pr_result.payment_data.total_amount >>
           /\ TruncatedTowardZero(intent.payment_amount,
                                  int_text[pr_result.payment_data.total_amount])
    /\ extracted # EmptyDict =>
           /\ Len(extracted.payment_amount.text) = 1
           /\ one_unit_str(extracted.payment_amount) =
                  pr_result.payment_data.total_amount
           /\ amount_check(one_unit_str(extracted.payment_amount),
                           pr_result.payment_data.total_amount) = "verified"

\* the callback URL of an intent of 100.90 has been read, the gateway having
\* appended its payload after '?': both amounts are 100
C32_Witness ==
    /\ intent # Unset
    /\ intent.payment_amount = 10090
    /\ extracted # EmptyDict
    /\ original_url # fixed_url
    /\ extracted.payment_amount = Str(<< "100" >>)
    /\ pr_result.returned
    /\ pr_result.payment_data.total_amount = "100"

(***************************************************************************)
(* C33: when the callback carries a traveler_id, the commit step resolves  *)
(* the Traveler by that id only.  The step that resolves the traveler      *)
(* takes the row with that id, whatever rows match the email or the phone, *)
(* and writes nothing; when the id is not an integer or no row has it the  *)
(* callback ends Rejected with the store as it was; and no Traveler row is *)
(* ever written by a callback that carries a traveler_id.                  *)
(***************************************************************************)
TravelerIdSupplied(w) == pc[w] # "idle" /\ ~Falsy(GET[w].traveler_id)

C33_Step(w) ==
    ( /\ pc[w] = "resolve_traveler"
      /\ pc'[w] # pc[w]
      /\ TravelerIdSupplied(w) ) =>
        IF /\ IsIntText(GET[w].traveler_id)
           /\ \E t \in store.travelers :
                  t.traveler_id = int_text[GET[w].traveler_id]
        THEN /\ pc'[w] = "get_package"
             /\ traveler'[w] = int_text[GET[w].traveler_id]
             /\ store' = store
             /\ tx' = tx
        ELSE /\ pc'[w] = "Rejected"
             /\ store' = store
             /\ tx'[w] = NoRows
             /\ RowsOf(cb[w])' = NoRows

NoTravelerWritten ==
    \A w \in Workers :
        TravelerIdSupplied(w) =>
            /\ tx[w].travelers = {}
            /\ RowsOf(cb[w]).travelers = {}
            /\ \A t \in RowsOf(cb[w]).tickets :
                   t.traveler = int_text[GET[w].traveler_id]

C33_TravelerByIdOnly ==
    [][NoTravelerWritten' /\ \A w \in Workers : C33_Step(w)]_vars

\* the second callback names traveler 9, which does not exist, and carries
\* the email and phone of the traveler the first callback created: Rejected
C33_Witness ==
    /\ pc["w1"] = "Rejected"
    /\ cb["w1"] = 2
    /\ GET["w1"].traveler_id = "9"
    /\ result["w1"].error = "Traveler creation failure"
    /\ \E t \in store.travelers :
           t.cb = 1 /\ Q_email_or_phone(t, GET["w1"])

(***************************************************************************)
(* C34: a callback whose URL had '?data=' in place of '&data=' is handled  *)
(* like the well-formed callback with the same values: it reaches the same *)
(* terminal outcome with the same effect on the store.  Stated on the last *)
(* step of the atomic block, where the two part: with the same values the  *)
(* well-formed callback ends this step Committed, or Rejected because the  *)
(* database refused the insert, and so must the callback whose URL was     *)
(* fixed.                                                                  *)
(***************************************************************************)
C34_Step(w) ==
    ( /\ pc[w] = "create_payment"
      /\ pc'[w] # pc[w]
      /\ GET[w].url_fixed ) =>
        \/ /\ pc'[w] = "Committed"
           /\ RowsOf(cb[w])'.payments # {}
        \/ /\ pc'[w] = "Rejected"
           /\ result'[w].details = "DatabaseError"

C34_MalformedUrlHandledAlike == [][\A w \in Workers : C34_Step(w)]_vars

\* the data parameter is valid base64 of well-formed key=value pairs
WellFormedPairsData(data) ==
    /\ data.kind = "b64"
    /\ \A i \in 1..Len(data.text) : Len(data.text[i]) = 2

\* base64 or UTF-8 decoding of the data parameter fails
UndecodableData(data) == data.kind \in {"garbage", "not_utf8"}

\* C35: decode success and decode failure are never confused: a payload
\* that is valid base64 of well-formed key=value pairs is never answered
\* with the decode error, whatever its keys (a key named 'error' included),
\* and a payload that failed to decode is never carried on to verification.
C35_DecodeOutcomeNotConfused ==
    \A w \in Workers :
        /\ WellFormedPairsData(GET[w].data) =>
               ~(pc[w] = "Rejected" /\ result[w].error = "Invalid Base64 data")
        /\ (UndecodableData(GET[w].data) /\ pc[w] # "idle") =>
               /\ pc[w] \in {"decode", "Rejected"}
               /\ remote[w] = NotCalled
               /\ decoded_data[w] = EmptyDict

(***************************************************************************)
(* C36: across the routed endpoints of the eSewa flow a Ticket and a       *)
(* Payment are written only for a payment the server itself verified as    *)
(* COMPLETE with the gateway: every step that adds a Ticket or a Payment   *)
(* to the store is the commit of a callback for which the verification     *)
(* endpoint was called and reported COMPLETE.  A POST that asserts         *)
(* payment_verified=true writes nothing.                                   *)
(***************************************************************************)
C36_Step ==
    (store'.tickets # store.tickets \/ store'.payments # store.payments) =>
        \E w \in Workers :
            /\ pc[w] = "create_payment"
            /\ pc'[w] = "Committed"
            /\ RemoteComplete(w)
            /\ store'.payments \ store.payments \subseteq RowsOf(cb[w])'.payments
            /\ store'.tickets \ store.tickets \subseteq RowsOf(cb[w])'.tickets

C36_OnlyVerifiedPaymentsBooked == [][C36_Step]_vars

====
